---------------------------- MODULE Spec2Model ----------------------------
(***************************************************************************)
(* Model of the viewport evaluation and comparison pipeline of             *)
(* cursor-cli-demo: the capture loops, the accessibility heuristics, the   *)
(* parsing of the agent's response and the before/after comparison report  *)
(* (src/src/examples/viewport-test.ts, src/src/examples/full-workflow.ts). *)
(*                                                                         *)
(* Conventions.  A JavaScript value that may be undefined is modelled by a *)
(* string that is "" when it is absent or empty (both are falsy in the     *)
(* code), or by a record with a boolean `present`.  A text is a sequence   *)
(* of characters; a character is a one-character string, except that a run *)
(* of ordinary letters ("evaluations", "good", ...) is a single element.   *)
(***************************************************************************)
EXTENDS Integers, Sequences, FiniteSets, TLC

(***************************************************************************)
(* Generic helpers.                                                        *)
(***************************************************************************)
Min(a, b) == IF a < b THEN a ELSE b

Range(s) == { s[i] : i \in DOMAIN s }

\* Array.prototype.slice(0, n)
Take(s, n) == SubSeq(s, 1, Min(n, Len(s)))

RECURSIVE Flatten(_)
\* Array.prototype.flat over a sequence of sequences, computed by halves
Flatten(ss) ==
    IF ss = << >> THEN << >>
    ELSE IF Len(ss) = 1 THEN ss[1]
    ELSE LET half == Len(ss) \div 2
         IN  Flatten(SubSeq(ss, 1, half)) \o Flatten(SubSeq(ss, half + 1, Len(ss)))

(***************************************************************************)
(* The device registries.                                                  *)
(***************************************************************************)
Device(n, w, h, mobile, ua) ==
    [ name |-> n, width |-> w, height |-> h, isMobile |-> mobile, userAgent |-> ua ]

\* viewport-test.ts
DEVICES_viewport ==
    << Device("iPhone 15 Pro", 393, 852, TRUE, "iPhone"),
       Device("Android (Pixel 7)", 412, 915, TRUE, "Android"),
       Device("Laptop 13-inch (1600x900)", 1600, 900, FALSE, ""),
       Device("Ultrawide (2560x1080)", 2560, 1080, FALSE, "") >>

\* full-workflow.ts
DEVICES_workflow ==
    << Device("iPhone 15 Pro", 393, 852, TRUE, "iPhone"),
       Device("Android (Pixel 7)", 412, 915, TRUE, "Android"),
       Device("Laptop 13-inch", 1600, 900, FALSE, ""),
       Device("Ultrawide", 2560, 1080, FALSE, "") >>

Programs == { "viewport-test", "full-workflow" }

DEVICES(program) ==
    IF program = "viewport-test" THEN DEVICES_viewport ELSE DEVICES_workflow

DeviceNames(program) == { DEVICES(program)[i].name : i \in DOMAIN DEVICES(program) }

(***************************************************************************)
(* The page as the in-page accessibility probe sees it: the elements in    *)
(* document order.  Attributes that are absent are "".  Texts and sources  *)
(* are shorter than the probe's slice(0, 30) and slice(-50), which         *)
(* therefore return them whole.                                            *)
(***************************************************************************)
Element(tag, role, alt, ariaLabel, ariaLabelledBy, id, for, name, type, text, src, w, h) ==
    [ tag |-> tag, role |-> role, alt |-> alt, ariaLabel |-> ariaLabel,
      ariaLabelledBy |-> ariaLabelledBy, id |-> id, for |-> for, name |-> name,
      type |-> type, text |-> text, src |-> src, width |-> w, height |-> h ]

\* The reference page; the pages probed are the sub-pages obtained by
\* deleting elements from it.
ReferencePage ==
    << Element("img", "", "", "", "", "", "", "", "", "", "hero.png", 300, 200),
       Element("img", "", "Logo", "", "", "", "", "", "", "", "logo.png", 40, 40),
       Element("button", "", "", "", "", "", "", "", "", "OK", "", 30, 30),
       Element("a", "", "", "", "", "", "", "", "", "Home", "", 120, 20),
       Element("div", "button", "", "Menu", "", "", "", "", "", "", "", 40, 48),
       Element("input", "", "", "", "", "email", "", "email", "text", "", "", 200, 48),
       Element("label", "", "", "", "", "", "email", "", "", "Email", "", 80, 20),
       Element("input", "", "", "", "", "", "", "", "search", "", "", 200, 30),
       Element("select", "", "", "", "country-label", "", "", "country", "", "", "", 20, 48),
       Element("textarea", "", "", "", "", "", "", "", "", "", "", 300, 100),
       Element("main", "", "", "", "", "", "", "", "", "", "", 800, 600),
       Element("div", "navigation", "", "", "", "", "", "", "", "", "", 800, 50),
       Element("h1", "", "", "", "", "", "", "", "", "Title", "", 400, 40) >>

\* The sub-page keeping the elements whose positions are in `keep`.
RECURSIVE SubPage(_, _, _)
SubPage(page, keep, i) ==
    IF i > Len(page) THEN << >>
    ELSE (IF i \in keep THEN << page[i] >> ELSE << >>) \o SubPage(page, keep, i + 1)

Pages == { SubPage(ReferencePage, keep, 1) : keep \in SUBSET (DOMAIN ReferencePage) }

\* The minimum touch-target side the probes compare against.
MinTouchTarget == 44

\* The number of sample elements a finding carries at most: slice(0, 3).
MaxSamples == 3

\* document.querySelectorAll(selector) for a selector that lists tags, plus
\* optionally [role='...'].
QuerySelectorAll(dom, tags, roles) ==
    SelectSeq(dom, LAMBDA el : el.tag \in tags \/ el.role \in roles)

\* document.querySelector(`label[for="${id}"]`) finds an element
HasLabelFor(dom, id) ==
    \E i \in DOMAIN dom : dom[i].tag = "label" /\ dom[i].for = id

IsSmall(el) == el.width < MinTouchTarget \/ el.height < MinTouchTarget

(***************************************************************************)
(* viewport-test.ts: analyzeAccessibility.                                 *)
(***************************************************************************)
\* img.src.slice(-50)
AltSample(img) == img.src

\* el.textContent?.slice(0, 30) || el.getAttribute("aria-label") || "unknown"
TouchSample(el) ==
    IF el.text # "" THEN el.text
    ELSE IF el.ariaLabel # "" THEN el.ariaLabel ELSE "unknown"

\* input.getAttribute("name") || input.getAttribute("type") || "unknown"
LabelSample(input) ==
    IF input.name # "" THEN input.name
    ELSE IF input.type # "" THEN input.type ELSE "unknown"

ImagesMissingAlt(dom) ==
    SelectSeq(QuerySelectorAll(dom, {"img"}, {}),
              LAMBDA img : img.alt = "" /\ img.ariaLabel = "")

\* A variant of SmallTouchTargets that forgets the isMobile guard.
SmallTouchTargets_unguarded(dom, isMobile) ==
    SelectSeq(QuerySelectorAll(dom, {"button", "a", "input", "select"}, {"button"}),
              IsSmall)

SmallTouchTargets(dom, isMobile) ==
    IF isMobile
    THEN SelectSeq(QuerySelectorAll(dom, {"button", "a", "input", "select"}, {"button"}),
                   IsSmall)
    ELSE << >>

InputsMissingLabel(dom) ==
    SelectSeq(QuerySelectorAll(dom, {"input", "select", "textarea"}, {}),
              LAMBDA input :
                  /\ ~(input.id # "" /\ HasLabelFor(dom, input.id))
                  /\ input.ariaLabel = ""
                  /\ input.ariaLabelledBy = "")

HasMain(dom) == QuerySelectorAll(dom, {"main"}, {"main"}) # << >>

HasNav(dom) == QuerySelectorAll(dom, {"nav"}, {"navigation"}) # << >>

Headings(dom) == QuerySelectorAll(dom, {"h1", "h2", "h3", "h4", "h5", "h6"}, {})

\* The object returned by the page.evaluate callback (A11yCheckResults).
A11yCheckResults(dom, isMobile) ==
    [ missingAltText    |->
          [ i \in DOMAIN ImagesMissingAlt(dom) |-> AltSample(ImagesMissingAlt(dom)[i]) ],
      smallTouchTargets |->
          [ i \in DOMAIN SmallTouchTargets(dom, isMobile) |->
              TouchSample(SmallTouchTargets(dom, isMobile)[i]) ],
      missingLabels     |->
          [ i \in DOMAIN InputsMissingLabel(dom) |-> LabelSample(InputsMissingLabel(dom)[i]) ],
      missingLandmarks  |-> ~HasMain(dom) \/ ~HasNav(dom),
      missingHeadings   |-> Len(Headings(dom)) = 0 ]

\* An AccessibilityIssue.  `count` is the number its description starts
\* with (hasCount says whether it has one), `element` the joined samples.
\* A variant of CountedIssue that carries every sample, not the first three.
CountedIssue_allSamples(type, samples, withSuggestion) ==
    [ type |-> type, hasCount |-> TRUE, count |-> Len(samples),
      hasElement |-> withSuggestion, element |-> IF withSuggestion THEN samples ELSE << >>,
      hasSuggestion |-> withSuggestion ]

CountedIssue(type, samples, withSuggestion) ==
    [ type |-> type, hasCount |-> TRUE, count |-> Len(samples),
      hasElement |-> withSuggestion, element |-> IF withSuggestion THEN Take(samples, MaxSamples) ELSE << >>,
      hasSuggestion |-> withSuggestion ]

FlagIssue(type, withSuggestion) ==
    [ type |-> type, hasCount |-> FALSE, count |-> 0,
      hasElement |-> FALSE, element |-> << >>,
      hasSuggestion |-> withSuggestion ]

\* "Convert to issues": the pushes, in the order of the code.
IssuesFromChecks(checks) ==
       (IF Len(checks.missingAltText) > 0
        THEN << CountedIssue("missing-alt-text", checks.missingAltText, TRUE) >> ELSE << >>)
    \o (IF Len(checks.smallTouchTargets) > 0
        THEN << CountedIssue("small-touch-target", checks.smallTouchTargets, TRUE) >> ELSE << >>)
    \o (IF Len(checks.missingLabels) > 0
        THEN << CountedIssue("missing-label", checks.missingLabels, TRUE) >> ELSE << >>)
    \o (IF checks.missingLandmarks
        THEN << FlagIssue("missing-landmarks", TRUE) >> ELSE << >>)
    \o (IF checks.missingHeadings
        THEN << FlagIssue("missing-headings", TRUE) >> ELSE << >>)

analyzeAccessibility(dom, device) ==
    IssuesFromChecks(A11yCheckResults(dom, device.isMobile))

(***************************************************************************)
(* full-workflow.ts: the accessibility check inlined in takeScreenshots.   *)
(***************************************************************************)
WorkflowSmallTouchTargets(dom, isMobile) ==
    IF isMobile
    THEN SelectSeq(QuerySelectorAll(dom, {"button", "a", "input"}, {"button"}), IsSmall)
    ELSE << >>

WorkflowInputsMissingLabel(dom) ==
    SelectSeq(QuerySelectorAll(dom, {"input", "select", "textarea"}, {}),
              LAMBDA input :
                  /\ ~(input.id # "" /\ HasLabelFor(dom, input.id))
                  /\ input.ariaLabel = "")

\* The counters returned by the page.evaluate callback.
WorkflowChecks(dom, isMobile) ==
    [ missingAltText    |-> Len(ImagesMissingAlt(dom)),
      smallTouchTargets |-> Len(WorkflowSmallTouchTargets(dom, isMobile)),
      missingLabels     |-> Len(WorkflowInputsMissingLabel(dom)),
      missingLandmarks  |-> ~HasMain(dom) \/ ~HasNav(dom) ]

WorkflowCountedIssue(type, n) ==
    [ type |-> type, hasCount |-> TRUE, count |-> n,
      hasElement |-> FALSE, element |-> << >>, hasSuggestion |-> FALSE ]

WorkflowIssues(checks) ==
       (IF checks.missingAltText > 0
        THEN << WorkflowCountedIssue("missing-alt", checks.missingAltText) >> ELSE << >>)
    \o (IF checks.smallTouchTargets > 0
        THEN << WorkflowCountedIssue("small-touch-targets", checks.smallTouchTargets) >> ELSE << >>)
    \o (IF checks.missingLabels > 0
        THEN << WorkflowCountedIssue("missing-labels", checks.missingLabels) >> ELSE << >>)
    \o (IF checks.missingLandmarks
        THEN << FlagIssue("missing-landmarks", FALSE) >> ELSE << >>)

workflowAccessibilityCheck(dom, device) ==
    WorkflowIssues(WorkflowChecks(dom, device.isMobile))

(***************************************************************************)
(* The image file of a device:                                             *)
(*   device.name.toLowerCase().replace(/[^a-z0-9]/g, "-") + ".png"         *)
(***************************************************************************)
\* The characters of the registries' device names.
NameChars(name) ==
    IF name = "iPhone 15 Pro" THEN
        << "i", "P", "h", "o", "n", "e", " ", "1", "5", " ", "P", "r", "o" >>
    ELSE IF name = "Android (Pixel 7)" THEN
        << "A", "n", "d", "r", "o", "i", "d", " ", "(", "P", "i", "x", "e", "l", " ", "7", ")" >>
    ELSE IF name = "Laptop 13-inch (1600x900)" THEN
        << "L", "a", "p", "t", "o", "p", " ", "1", "3", "-", "i", "n", "c", "h", " ", "(", "1", "6", "0", "0", "x", "9", "0", "0", ")" >>
    ELSE IF name = "Ultrawide (2560x1080)" THEN
        << "U", "l", "t", "r", "a", "w", "i", "d", "e", " ", "(", "2", "5", "6", "0", "x", "1", "0", "8", "0", ")" >>
    ELSE IF name = "Laptop 13-inch" THEN
        << "L", "a", "p", "t", "o", "p", " ", "1", "3", "-", "i", "n", "c", "h" >>
    ELSE IF name = "Ultrawide" THEN
        << "U", "l", "t", "r", "a", "w", "i", "d", "e" >>
    ELSE << >>

UpperCase == << "A", "B", "C", "D", "E", "F", "G", "H", "I", "J", "K", "L", "M",
                "N", "O", "P", "Q", "R", "S", "T", "U", "V", "W", "X", "Y", "Z" >>

LowerCase == << "a", "b", "c", "d", "e", "f", "g", "h", "i", "j", "k", "l", "m",
                "n", "o", "p", "q", "r", "s", "t", "u", "v", "w", "x", "y", "z" >>

Digits == << "0", "1", "2", "3", "4", "5", "6", "7", "8", "9" >>

\* String.prototype.toLowerCase, one character
ToLowerCase(c) ==
    IF \E i \in DOMAIN UpperCase : UpperCase[i] = c
    THEN LowerCase[CHOOSE i \in DOMAIN UpperCase : UpperCase[i] = c]
    ELSE c

\* replace(/[^a-z0-9]/g, "-"), one character
ReplaceUnsafe(c) == IF c \in Range(LowerCase) \cup Range(Digits) THEN c ELSE "-"

safeName(name) ==
    [ i \in DOMAIN NameChars(name) |-> ReplaceUnsafe(ToLowerCase(NameChars(name)[i])) ]

\* A variant of filename that does not use the device name.
filename_fixed(name) == << "s", "c", "r", "e", "e", "n", "s", "h", "o", "t", ".png" >>

\* `${safeName}.png`
filename(name) == safeName(name) \o << ".png" >>

\* join(dir, filename): the directory and the file name
ScreenshotPath(dir, name) == << dir, filename(name) >>

\* The pages a navigation can leave in the browser: the whole reference
\* page, or its first elements only (images and buttons, no landmark and no
\* heading); a navigation that fails with an error leaves an empty page.
CapturePages ==
    { ReferencePage,
      SubPage(ReferencePage, 1..4, 1) }

PagesAfter(outcome) == IF outcome = "error" THEN { << >> } ELSE CapturePages

NavigationOutcomes == { "loaded", "timeout", "error" }

\* The ScreenshotResult pushed for a device.  accessibilityIssues is
\* undefined unless hasIssues.
ScreenshotResult(device, dir, hasIssues, issues) ==
    [ device |-> device.name,
      path |-> ScreenshotPath(dir, device.name),
      filename |-> filename(device.name),
      viewport |-> [ width |-> device.width, height |-> device.height,
                     isMobile |-> device.isMobile ],
      hasIssues |-> hasIssues,
      accessibilityIssues |-> issues ]

(***************************************************************************)
(* The evaluation prompt: the list of screenshots and the block of         *)
(* accessibility findings.  A block is [heading, groups, placeholder]:     *)
(* whether its heading is written, the groups of findings under their      *)
(* device, and whether "None detected" stands in for them.                 *)
(***************************************************************************)
\* result.accessibilityIssues && result.accessibilityIssues.length > 0,
\* r.accessibilityIssues?.length
HasFindings(result) == result.hasIssues /\ Len(result.accessibilityIssues) > 0

FindingGroup(result) == [ device |-> result.device, findings |-> result.accessibilityIssues ]

\* the groups of the results that have findings, in the order of the results
FindingGroups(results) ==
    LET withFindings == SelectSeq(results, HasFindings)
    IN  [ i \in DOMAIN withFindings |-> FindingGroup(withFindings[i]) ]

\* viewport-test.ts: let accessibilityContext = ""; if (includeAccessibility)
\* { accessibilityContext = "## Accessibility Audit Results"; for ... }
accessibilityContext(results, includeAccessibility) ==
    IF includeAccessibility
    THEN [ heading |-> TRUE, groups |-> FindingGroups(results), placeholder |-> FALSE ]
    ELSE [ heading |-> FALSE, groups |-> << >>, placeholder |-> FALSE ]

\* full-workflow.ts: "## Accessibility Issues Found:" and
\* ${a11yContext || "None detected"}
a11yContext(results) ==
    [ heading |-> TRUE, groups |-> FindingGroups(results),
      placeholder |-> FindingGroups(results) = << >> ]

\* `- ${r.device} (${r.viewport.width}x${r.viewport.height}): ${r.path}`
screenshotList(results) ==
    [ i \in DOMAIN results |->
        [ device |-> results[i].device, viewport |-> results[i].viewport,
          path |-> results[i].path ] ]

EvaluationPrompt(program, results, includeAccessibility) ==
    [ screenshots |-> screenshotList(results),
      accessibility |-> IF program = "viewport-test"
                        THEN accessibilityContext(results, includeAccessibility)
                        ELSE a11yContext(results) ]

\* no prompt is built yet
NoPrompt == [ screenshots |-> << >> ]

(***************************************************************************)
(* full-workflow.ts: DeviceEvaluation and generateComparisonReport.        *)
(* A field that is a string is "" when the evaluation lacks it; `issues`   *)
(* and `suggestions` are [present, items].  The status markers of the      *)
(* report are written CHECK, WARNING and CROSS.                            *)
(***************************************************************************)
Present(items) == [ present |-> TRUE, items |-> items ]

Undefined == [ present |-> FALSE, items |-> << >> ]

DeviceEvaluation(device, status, feedback, issues, suggestions, a11y) ==
    [ device |-> device, status |-> status, feedback |-> feedback, issues |-> issues,
      suggestions |-> suggestions, accessibility_status |-> a11y ]

\* A variant of Find that returns the last evaluation of the name.
Find_last(evals, name) ==
    IF \E i \in DOMAIN evals : evals[i].device = name
    THEN [ found |-> TRUE,
           value |-> evals[CHOOSE i \in DOMAIN evals :
                             /\ evals[i].device = name
                             /\ \A j \in (i + 1)..Len(evals) : evals[j].device # name] ]
    ELSE [ found |-> FALSE, value |-> DeviceEvaluation("", "", "", Undefined, Undefined, "") ]

\* evals.find((e) => e.device === name): whether one is found, and the first
Find(evals, name) ==
    IF \E i \in DOMAIN evals : evals[i].device = name
    THEN [ found |-> TRUE,
           value |-> evals[CHOOSE i \in DOMAIN evals :
                             /\ evals[i].device = name
                             /\ \A j \in 1..(i - 1) : evals[j].device # name] ]
    ELSE [ found |-> FALSE, value |-> DeviceEvaluation("", "", "", Undefined, Undefined, "") ]

\* beforeEval?.status === "good" ? CHECK : beforeEval?.status === "minor_issues" ? WARNING : CROSS
StatusMarker(e) ==
    IF e.found /\ e.value.status = "good" THEN "CHECK"
    ELSE IF e.found /\ e.value.status = "minor_issues" THEN "WARNING" ELSE "CROSS"

\* A variant of FixedIssues that compares with the before list itself.
FixedIssues_self(beforeEval, afterEval) ==
    IF ~beforeEval.issues.present THEN Undefined
    ELSE Present(SelectSeq(beforeEval.issues.items,
                           LAMBDA issue : issue \notin Range(beforeEval.issues.items)))

\* beforeEval.issues?.filter((issue) => !afterEval.issues?.includes(issue))
FixedIssues(beforeEval, afterEval) ==
    IF ~beforeEval.issues.present THEN Undefined
    ELSE Present(SelectSeq(beforeEval.issues.items,
                           LAMBDA issue : ~(/\ afterEval.issues.present
                                            /\ issue \in Range(afterEval.issues.items))))

\* A variant of DeviceSection that writes the issue lists for every device
\* with an after-evaluation.
DeviceSection_afterOnly(device, beforeEvals, afterEvals) ==
    LET beforeEval == Find(beforeEvals, device.name)
        afterEval  == Find(afterEvals, device.name)
        both       == afterEval.found
        fixed      == FixedIssues(beforeEval.value, afterEval.value)
    IN  [ device |-> device.name,
          beforeStatus |-> StatusMarker(beforeEval),
          afterStatus |-> StatusMarker(afterEval),
          detailed |-> beforeEval.found /\ afterEval.found,
          beforeFeedback |-> IF beforeEval.found /\ afterEval.found
                             THEN beforeEval.value.feedback ELSE "",
          afterFeedback |-> IF beforeEval.found /\ afterEval.found
                            THEN afterEval.value.feedback ELSE "",
          fixedShown |-> both /\ fixed.present /\ Len(fixed.items) > 0,
          fixedIssues |-> IF both THEN fixed.items ELSE << >>,
          remainingShown |-> /\ both
                             /\ afterEval.value.issues.present
                             /\ Len(afterEval.value.issues.items) > 0,
          remainingIssues |-> IF both THEN afterEval.value.issues.items ELSE << >> ]

\* The section of one device in "Before vs After Comparison".  The blocks
\* "Fixed" and "Remaining Issues" are written only for a non-empty list.
DeviceSection(device, beforeEvals, afterEvals) ==
    LET beforeEval == Find(beforeEvals, device.name)
        afterEval  == Find(afterEvals, device.name)
        both       == beforeEval.found /\ afterEval.found
        fixed      == FixedIssues(beforeEval.value, afterEval.value)
    IN  [ device |-> device.name,
          beforeStatus |-> StatusMarker(beforeEval),
          afterStatus |-> StatusMarker(afterEval),
          detailed |-> both,
          beforeFeedback |-> IF both THEN beforeEval.value.feedback ELSE "",
          afterFeedback |-> IF both THEN afterEval.value.feedback ELSE "",
          fixedShown |-> both /\ fixed.present /\ Len(fixed.items) > 0,
          fixedIssues |-> IF both THEN fixed.items ELSE << >>,
          remainingShown |-> /\ both
                             /\ afterEval.value.issues.present
                             /\ Len(afterEval.value.issues.items) > 0,
          remainingIssues |-> IF both THEN afterEval.value.issues.items ELSE << >> ]

\* afterEvals.filter((e) => e.status !== "good" || e.accessibility_status !== "good")
RemainingIssues(afterEvals) ==
    SelectSeq(afterEvals,
              LAMBDA e : e.status # "good" \/ e.accessibility_status # "good")

\* evals.filter((e) => e.status === status).length
CountStatus(evals, status) == Len(SelectSeq(evals, LAMBDA e : e.status = status))

\* The report: the summary table, one section per registry device, and
\* "Next Steps", which says "All viewports now pass!" when allPass.
generateComparisonReport(beforeEvals, afterEvals) ==
    [ summary |->
          [ before |-> [ st \in { "good", "minor_issues", "broken" } |->
                           CountStatus(beforeEvals, st) ],
            after  |-> [ st \in { "good", "minor_issues", "broken" } |->
                           CountStatus(afterEvals, st) ] ],
      sections |->
          [ i \in DOMAIN DEVICES_workflow |->
              DeviceSection(DEVICES_workflow[i], beforeEvals, afterEvals) ],
      allPass |-> Len(RemainingIssues(afterEvals)) = 0,
      stillFailing |-> [ i \in DOMAIN RemainingIssues(afterEvals) |->
                           RemainingIssues(afterEvals)[i].device ] ]

\* The report before it is generated.
NoReport ==
    [ summary |-> [ before |-> [ st \in { "good", "minor_issues", "broken" } |-> 0 ],
                    after  |-> [ st \in { "good", "minor_issues", "broken" } |-> 0 ] ],
      sections |-> << >>, allPass |-> FALSE, stillFailing |-> << >> ]

\* evaluation?.status === "good" ? CHECK : ... "minor_issues" ? WARNING :
\* ... "broken" ? CROSS : PHONE
StatusIcon(e) ==
    IF e.found /\ e.value.status = "good" THEN "CHECK"
    ELSE IF e.found /\ e.value.status = "minor_issues" THEN "WARNING"
    ELSE IF e.found /\ e.value.status = "broken" THEN "CROSS" ELSE "PHONE"

\* The section of one capture result in the report of viewport-test.ts: the
\* heading with the status icon, and under "if (evaluation)" the status, the
\* feedback and the non-empty issue and suggestion lists.
ResultSection(result, evals) ==
    LET evaluation == Find(evals, result.name)
    IN  [ device |-> result.name,
          statusIcon |-> StatusIcon(evaluation),
          evaluated |-> evaluation.found,
          status |-> IF evaluation.found THEN evaluation.value.status ELSE "",
          feedback |-> IF evaluation.found THEN evaluation.value.feedback ELSE "",
          issuesShown |-> /\ evaluation.found
                          /\ evaluation.value.issues.present
                          /\ Len(evaluation.value.issues.items) > 0,
          issues |-> IF evaluation.found THEN evaluation.value.issues.items ELSE << >> ]

\* for (const result of results) { ... }: one section per capture result;
\* takeMultiViewportScreenshots returns one result per registry device.
ResultSections(evals) ==
    [ sections |-> [ i \in DOMAIN DEVICES_viewport |->
                       ResultSection(DEVICES_viewport[i], evals) ] ]

(***************************************************************************)
(* The evaluation lists the comparison is applied to.  The agent answers   *)
(* for each registry device in registry order, or omits it; or it answers  *)
(* for the first device only, with any issue list up to MaxIssues.         *)
(***************************************************************************)
MaxIssues == 3

IssueStrings == { "fix X", "fix Y" }

RECURSIVE SeqsUpTo(_, _)
\* The sequences over S of length at most n.
SeqsUpTo(S, n) ==
    IF n = 0 THEN { << >> }
    ELSE LET shorter == SeqsUpTo(S, n - 1)
         IN  shorter \cup { Append(q, x) : q \in shorter, x \in S }

IssueLists == { Undefined } \cup { Present(q) : q \in SeqsUpTo(IssueStrings, MaxIssues) }

\* What the agent may say about one device before the fixes ...
BeforeBodies ==
    { [ status |-> "broken", feedback |-> "cards overflow",
        issues |-> Present(<< "fix X", "fix Y" >>),
        suggestions |-> Present(<< "use grid" >>), accessibility_status |-> "issues" ],
      [ status |-> "good", feedback |-> "fine",
        issues |-> Present(<< >>),
        suggestions |-> Present(<< >>), accessibility_status |-> "" ] }

\* ... and after them.
AfterBodies ==
    { [ status |-> "good", feedback |-> "fine",
        issues |-> Present(<< >>),
        suggestions |-> Present(<< >>), accessibility_status |-> "" ],
      [ status |-> "good", feedback |-> "better",
        issues |-> Present(<< "fix Y" >>),
        suggestions |-> Undefined, accessibility_status |-> "good" ],
      [ status |-> "minor_issues", feedback |-> "nearly",
        issues |-> Undefined,
        suggestions |-> Present(<< "use grid" >>), accessibility_status |-> "good" ],
      [ status |-> "broken", feedback |-> "cards overflow",
        issues |-> Present(<< "fix X", "fix Y" >>),
        suggestions |-> Present(<< "use grid", "use grid" >>),
        accessibility_status |-> "critical" ] }

Omitted == [ status |-> "omitted" ]

RECURSIVE AnswerOf(_, _, _)
\* The evaluation list that holds, for each device from index i on, the
\* evaluation choice[i] gives it, unless that is Omitted.
AnswerOf(devices, choice, i) ==
    IF i > Len(devices) THEN << >>
    ELSE (IF choice[i] = Omitted THEN << >>
          ELSE << DeviceEvaluation(devices[i].name, choice[i].status, choice[i].feedback,
                                   choice[i].issues, choice[i].suggestions,
                                   choice[i].accessibility_status) >>)
         \o AnswerOf(devices, choice, i + 1)

AnswersPerDevice(bodies) ==
    { AnswerOf(DEVICES_workflow, choice, 1) :
        choice \in [ DOMAIN DEVICES_workflow -> bodies \cup { Omitted } ] }

AnswersFirstDevice(status, a11y) ==
    { << DeviceEvaluation(DEVICES_workflow[1].name, status, "", issues, Undefined, a11y) >> :
        issues \in IssueLists }

\* Nothing makes the agent answer in registry order, once per device, or
\* only about the devices it was shown: the lists of at most MaxShuffled
\* evaluations of the first two registry devices (whose names the two
\* registries share) and of a device of no registry.
MaxShuffled == 2

ShuffledNames == { DEVICES_workflow[1].name, DEVICES_workflow[2].name, "Smart fridge" }

ShuffledBodies ==
    { [ status |-> "broken", feedback |-> "cards overflow",
        issues |-> Present(<< "fix X", "fix Y" >>) ],
      [ status |-> "good", feedback |-> "fine",
        issues |-> Present(<< "fix Y" >>) ] }

AnswersAnyOrder ==
    SeqsUpTo({ DeviceEvaluation(n, b.status, b.feedback, b.issues, Undefined, "good") :
                 n \in ShuffledNames, b \in ShuffledBodies }, MaxShuffled)

(***************************************************************************)
(* Text and JSON.  A text is a sequence of characters, each a string of    *)
(* one character; the texts of the model are written over braces,          *)
(* brackets, comma, colon, quote, backslash, space, newline and letters,   *)
(* without digits or signs, so no text holds a JSON number.  A JSON value  *)
(* is a record [t, v]: t names its type and v is a sequence, the           *)
(* characters of a string, the items of an array, the <<key, value>>       *)
(* members of an object in insertion order, or the name of a literal.      *)
(***************************************************************************)
JString(chars) == [t |-> "str", v |-> chars]

JArray(items) == [t |-> "arr", v |-> items]

JObject(members) == [t |-> "obj", v |-> members]

JLiteral(name) == [t |-> "lit", v |-> name]

\* the value of a property an object does not have
JUndefined == [t |-> "undefined", v |-> << >>]

Word_null == << "n", "u", "l", "l" >>

Word_true == << "t", "r", "u", "e" >>

Word_false == << "f", "a", "l", "s", "e" >>

JsonWhitespace == { " ", "\n", "\t", "\r" }

\* the control characters of the texts; <BS> stands for U+0008
ControlChars == { "\n", "\t", "\r", "\f", "<BS>" }

HexDigits == Range(Digits) \cup { "a", "b", "c", "d", "e", "f", "A", "B", "C", "D", "E", "F" }

\* JSON.parse: the character a two-character escape stands for
Unescape(c) ==
    CASE c = "n" -> "\n"
      [] c = "t" -> "\t"
      [] c = "r" -> "\r"
      [] c = "f" -> "\f"
      [] c = "b" -> "<BS>"
      [] OTHER -> c

SimpleEscapes == { "\"", "\\", "/", "b", "f", "n", "r", "t" }

\* the code unit a \uXXXX escape stands for
CodeUnit(h1, h2, h3, h4) ==
    "\\u" \o ToLowerCase(h1) \o ToLowerCase(h2) \o ToLowerCase(h3) \o ToLowerCase(h4)

RECURSIVE SkipWhitespace(_, _)
SkipWhitespace(text, i) ==
    IF i <= Len(text) /\ text[i] \in JsonWhitespace
    THEN SkipWhitespace(text, i + 1)
    ELSE i

HasWordAt(text, i, word) ==
    /\ i + Len(word) - 1 <= Len(text)
    /\ SubSeq(text, i, i + Len(word) - 1) = word

\* a SyntaxError of JSON.parse
SyntaxError == [ok |-> FALSE, val |-> JUndefined, pos |-> 0]

Parsed(val, pos) == [ok |-> TRUE, val |-> val, pos |-> pos]

\* the number of backslashes in a row that end just before position j
\* of a string that begins at position i
RECURSIVE BackslashRun(_, _, _)
BackslashRun(text, i, j) ==
    IF j > i /\ text[j - 1] = "\\" THEN 1 + BackslashRun(text, i, j - 1) ELSE 0

\* whether the backslash at position j begins an escape: it is not itself
\* the escaped character of the one before it
EscapeStart(text, i, j) ==
    /\ j >= i
    /\ text[j] = "\\"
    /\ BackslashRun(text, i, j) % 2 = 0

\* what the character at position j of a string adds to its value
StringPiece(text, i, j) ==
    IF EscapeStart(text, i, j) THEN
        IF text[j + 1] = "u"
        THEN << CodeUnit(text[j + 2], text[j + 3], text[j + 4], text[j + 5]) >>
        ELSE << Unescape(text[j + 1]) >>
    ELSE IF EscapeStart(text, i, j - 1) THEN << >>
    ELSE IF \E k \in 2..5 : EscapeStart(text, i, j - k) /\ text[j - k + 1] = "u" THEN << >>
    ELSE << text[j] >>

\* the string whose opening quote precedes position i: it ends at the
\* first quote that is not escaped, every escape is one of the grammar,
\* and no control character stands in it
ParseString(text, i, acc) ==
    LET closing == { j \in i..Len(text) :
                       text[j] = "\"" /\ ~EscapeStart(text, i, j - 1) }
        close == CHOOSE j \in closing : \A k \in closing : j <= k
        body == i..(close - 1)
    IN  IF closing = {} THEN SyntaxError
        ELSE IF \E j \in body : text[j] \in ControlChars THEN SyntaxError
        ELSE IF \E j \in body :
                   /\ EscapeStart(text, i, j)
                   /\ text[j + 1] \notin SimpleEscapes
                   /\ ~(/\ text[j + 1] = "u"
                        /\ j + 5 < close
                        /\ \A k \in 2..5 : text[j + k] \in HexDigits)
             THEN SyntaxError
        ELSE Parsed(JString(acc \o Flatten([j \in 1..(close - i) |->
                                               StringPiece(text, i, i + j - 1)])),
                    close + 1)

\* an object's members after `key: val` is set: a key already there keeps
\* its place and takes the new value
PutMember(members, key, val) ==
    IF \E k \in DOMAIN members : members[k][1] = key
    THEN [k \in DOMAIN members |->
            IF members[k][1] = key THEN << key, val >> ELSE members[k]]
    ELSE Append(members, << key, val >>)

RECURSIVE ParseValue(_, _)
RECURSIVE ParseElements(_, _, _)
RECURSIVE ParseMembers(_, _, _)

\* the elements of an array from position i on, up to its closing bracket
ParseElements(text, i, acc) ==
    LET r == ParseValue(text, i)
        j == SkipWhitespace(text, r.pos)
    IN  IF ~r.ok \/ j > Len(text) THEN SyntaxError
        ELSE IF text[j] = "," THEN ParseElements(text, j + 1, Append(acc, r.val))
        ELSE IF text[j] = "]" THEN Parsed(JArray(Append(acc, r.val)), j + 1)
        ELSE SyntaxError

\* the members of an object from position i on, up to its closing brace
ParseMembers(text, i, acc) ==
    LET k == SkipWhitespace(text, i)
        key == IF k <= Len(text) /\ text[k] = "\""
               THEN ParseString(text, k + 1, << >>) ELSE SyntaxError
        c == SkipWhitespace(text, key.pos)
        r == IF key.ok /\ c <= Len(text) /\ text[c] = ":"
             THEN ParseValue(text, c + 1) ELSE SyntaxError
        j == SkipWhitespace(text, r.pos)
        members == PutMember(acc, key.val.v, r.val)
    IN  IF ~r.ok \/ j > Len(text) THEN SyntaxError
        ELSE IF text[j] = "," THEN ParseMembers(text, j + 1, members)
        ELSE IF text[j] = "}" THEN Parsed(JObject(members), j + 1)
        ELSE SyntaxError

\* the value that starts at position i, after whitespace
ParseValue(text, i) ==
    LET s == SkipWhitespace(text, i)
        n == SkipWhitespace(text, s + 1)
    IN  IF s > Len(text) THEN SyntaxError
        ELSE IF text[s] = "{" THEN
            IF n <= Len(text) /\ text[n] = "}"
            THEN Parsed(JObject(<< >>), n + 1)
            ELSE ParseMembers(text, s + 1, << >>)
        ELSE IF text[s] = "[" THEN
            IF n <= Len(text) /\ text[n] = "]"
            THEN Parsed(JArray(<< >>), n + 1)
            ELSE ParseElements(text, s + 1, << >>)
        ELSE IF text[s] = "\"" THEN ParseString(text, s + 1, << >>)
        ELSE IF HasWordAt(text, s, Word_null) THEN Parsed(JLiteral(Word_null), s + 4)
        ELSE IF HasWordAt(text, s, Word_true) THEN Parsed(JLiteral(Word_true), s + 4)
        ELSE IF HasWordAt(text, s, Word_false) THEN Parsed(JLiteral(Word_false), s + 5)
        ELSE SyntaxError

\* JSON.parse(text): one value, with nothing but whitespace around it
JSONParse(text) ==
    LET r == ParseValue(text, 1)
    IN  IF r.ok /\ SkipWhitespace(text, r.pos) > Len(text) THEN r ELSE SyntaxError

\* JSON.stringify: a character of a string, escaped where JSON needs it
EscapeChar(c) ==
    CASE c = "\"" -> << "\\", "\"" >>
      [] c = "\\" -> << "\\", "\\" >>
      [] c = "\n" -> << "\\", "n" >>
      [] c = "\t" -> << "\\", "t" >>
      [] c = "\r" -> << "\\", "r" >>
      [] c = "\f" -> << "\\", "f" >>
      [] c = "<BS>" -> << "\\", "b" >>
      [] OTHER -> << c >>

\* JSON.stringify of a string
Quote(chars) ==
    << "\"" >> \o Flatten([k \in DOMAIN chars |-> EscapeChar(chars[k])]) \o << "\"" >>

\* the line break and indentation before an item at nesting depth `level`
Indent(gap, level) ==
    IF gap = 0 THEN << >> ELSE << "\n" >> \o [k \in 1..(gap * level) |-> " "]

\* the parts of an array or object joined by commas, each on its own
\* line when there is a gap
RECURSIVE JoinParts(_, _, _)
JoinParts(parts, gap, level) ==
    IF parts = << >> THEN << >>
    ELSE Indent(gap, level) \o Head(parts)
         \o (IF Len(parts) > 1 THEN << "," >> ELSE << >>)
         \o JoinParts(Tail(parts), gap, level)

\* JSON.stringify(value, null, gap) at nesting depth `level`
RECURSIVE Stringify(_, _, _)
Stringify(value, gap, level) ==
    CASE value.t = "str" -> Quote(value.v)
      [] value.t = "lit" -> value.v
      [] value.t = "arr" ->
            IF value.v = << >> THEN << "[", "]" >>
            ELSE << "[" >>
                 \o JoinParts([k \in DOMAIN value.v |->
                                 Stringify(value.v[k], gap, level + 1)], gap, level + 1)
                 \o Indent(gap, level) \o << "]" >>
      [] value.t = "obj" ->
            IF value.v = << >> THEN << "{", "}" >>
            ELSE << "{" >>
                 \o JoinParts([k \in DOMAIN value.v |->
                                 Quote(value.v[k][1]) \o << ":" >>
                                 \o (IF gap = 0 THEN << >> ELSE << " " >>)
                                 \o Stringify(value.v[k][2], gap, level + 1)], gap, level + 1)
                 \o Indent(gap, level) \o << "}" >>

\* obj[key]: the property of an object, undefined when it has none
Get(obj, key) ==
    IF \E k \in DOMAIN obj.v : obj.v[k][1] = key
    THEN obj.v[CHOOSE k \in DOMAIN obj.v : obj.v[k][1] = key][2]
    ELSE JUndefined

\* whether `value || other` is value: undefined, null, false and the empty
\* string are falsy
Truthy(value) ==
    CASE value.t = "undefined" -> FALSE
      [] value.t = "lit" -> value.v = Word_true
      [] value.t = "str" -> value.v # << >>
      [] OTHER -> TRUE

(***************************************************************************)
(* The agent's answer: the events of its stream, and the evaluations the   *)
(* two programs decode from the text of the answer.                        *)
(***************************************************************************)
Positions(text, c) == { k \in DOMAIN text : text[k] = c }

SetMin(S) == CHOOSE x \in S : \A y \in S : x <= y

SetMax(S) == CHOOSE x \in S : \A y \in S : y <= x

NoMatch == [found |-> FALSE, text |-> << >>]

\* a variant of JsonMatch: /\{[\s\S]*?\}/, up to the first closing brace
JsonMatch_lazy(text) ==
    LET opens == Positions(text, "{")
        closes == { k \in Positions(text, "}") : opens # {} /\ k > SetMin(opens) }
    IN  IF closes # {}
        THEN [found |-> TRUE, text |-> SubSeq(text, SetMin(opens), SetMin(closes))]
        ELSE NoMatch

\* a variant of JsonMatch: /\{[\s\S]*/, up to the end of the text
JsonMatch_toEnd(text) ==
    LET opens == Positions(text, "{")
    IN  IF opens # {}
        THEN [found |-> TRUE, text |-> SubSeq(text, SetMin(opens), Len(text))]
        ELSE NoMatch

\* rawResponse.match(/\{[\s\S]*\}/): jsonMatch[0] is the text from the
\* first opening brace to the last closing brace after it
JsonMatch(text) ==
    LET opens == Positions(text, "{")
        closes == Positions(text, "}")
    IN  IF opens # {} /\ closes # {} /\ SetMin(opens) < SetMax(closes)
        THEN [found |-> TRUE, text |-> SubSeq(text, SetMin(opens), SetMax(closes))]
        ELSE NoMatch

Key_evaluations ==
    << "e", "v", "a", "l", "u", "a", "t", "i", "o", "n", "s" >>

Key_device ==
    << "d", "e", "v", "i", "c", "e" >>

Key_status ==
    << "s", "t", "a", "t", "u", "s" >>

Key_issues ==
    << "i", "s", "s", "u", "e", "s" >>

\* let evaluations: DeviceEvaluation[] = []
NoEvaluations == JArray(<< >>)

\* the body of the try block: whether JSON.parse threw, and the value
\* `evaluations` holds afterwards
DecodeEvaluations(raw) ==
    LET jsonMatch == JsonMatch(raw)
        parsed == JSONParse(jsonMatch.text)
        found == Get(parsed.val, Key_evaluations)
    IN  IF ~jsonMatch.found THEN [threw |-> FALSE, evaluations |-> NoEvaluations]
        ELSE IF ~parsed.ok THEN [threw |-> TRUE, evaluations |-> NoEvaluations]
        ELSE [threw |-> FALSE,
              evaluations |-> IF Truthy(found) THEN found ELSE NoEvaluations]

\* a variant of AfterSyntaxError: no catch, the error leaves the function
AfterSyntaxError_uncaught == "threw"

\* catch { console.log(...) }: the function goes on to its return
AfterSyntaxError == "returned"

\* an event of the agent's stream
Delta(type, text) == [type |-> type, text |-> text]

TextDelta(text) == Delta("text-delta", text)

\* one evaluation as the agent writes it
EvaluationJson(device, status, issues) ==
    JObject(<< << Key_device, JString(device) >>, << Key_status, JString(status) >> >>
            \o (IF issues.present
                THEN << << Key_issues,
                           JArray([k \in DOMAIN issues.items |-> JString(issues.items[k])]) >> >>
                ELSE << >>))

\* the object the prompt asks for, with its evaluations
EvaluationObject(list) == JObject(<< << Key_evaluations, JArray(list) >> >>)

EvaluationA == EvaluationJson(<< "A" >>, <<"g", "o", "o", "d">>, Undefined)

SampleEvaluations ==
    { EvaluationA,
      EvaluationJson(<< "B", "}" >>, <<"b", "r", "o", "k", "e", "n">>,
                     Present(<< << "a", "\"", "b", "{" >>, << "x", "\\", "y", "\n" >> >>)),
      EvaluationJson(<< >>, <<"m", "i", "n", "o", "r", "_", "i", "s", "s", "u", "e", "s">>, Present(<< >>)) }

MaxEvals == 2

ValidObjects == { EvaluationObject(list) : list \in SeqsUpTo(SampleEvaluations, MaxEvals) }

\* the texts that encode a valid object, compact or indented by two, each
\* with the object it encodes
EncodedObjects ==
    { [object |-> o, text |-> Stringify(o, gap, 0)] : o \in ValidObjects, gap \in { 0, 2 } }

\* the text deltas the agent's answer is made of
ProseBefore ==
    << "H", "e", "r", "e", " ", "y", "o", "u", " ", "g", "o", "\n" >>

ProseAfter ==
    << " ", "T", "h", "a", "n", "k", "s" >>

ObjectA == Stringify(EvaluationObject(<< EvaluationA >>), 0, 0)

WrapperOpen ==
    << "{", "\"", "e", "v", "a", "l", "u", "a", "t", "i", "o", "n", "s",
       "\"", ":", "[", "{", "\"", "d", "e", "v", "i", "c", "e", "\"", ":",
       "\"", "B", "\"", ",", "\"", "s", "t", "a", "t", "u", "s", "\"", ":",
       "\"", "b", "r", "o", "k", "e", "n", "\"", "}", "]", ",", "\"", "i",
       "n", "n", "e", "r", "\"", ":" >>

ObjectWithoutEvaluations ==
    << "{", "\"", "s", "u", "m", "m", "a", "r", "y", "\"", ":", "\"", "x",
       "\"", "}" >>

ObjectMalformed ==
    << "{", "\"", "e", "v", "a", "l", "u", "a", "t", "i", "o", "n", "s",
       "\"", ":", "[", ",", "]", "}" >>

ObjectWithText ==
    << "{", "\"", "e", "v", "a", "l", "u", "a", "t", "i", "o", "n", "s",
       "\"", ":", "\"", "x", "\"", "}" >>

TextFragments ==
    { ProseBefore, ProseAfter, << "{" >>, << "}" >>, ObjectA, WrapperOpen,
      ObjectWithoutEvaluations, ObjectMalformed, ObjectWithText }

\* the events of a stream: text deltas, and events with other tags
Deltas ==
    { TextDelta(text) : text \in TextFragments }
    \cup { Delta("tool-call-started", << >>), Delta("tool-call-completed", << >>),
           Delta("thinking-delta", << "h", "m" >>) }

MaxDeltas == 3

\* the streams an agent sends: up to MaxDeltas events, or one delta with
\* the text of a valid object
Streams ==
    SeqsUpTo(Deltas, MaxDeltas) \cup { << TextDelta(e.text) >> : e \in EncodedObjects }

(***************************************************************************)
(* What the programs write from the evaluation: report.md with its raw     *)
(* section (viewport-test.ts), the evaluation dump (full-workflow.ts).     *)
(***************************************************************************)
Key_raw == << "r", "a", "w" >>

\* value.key, where value need not be an object
Prop(value, key) == IF value.t = "obj" THEN Get(value, key) ELSE JUndefined

\* a value whose properties cannot be read: undefined or null
IsNullish(value) == value.t = "undefined" \/ (value.t = "lit" /\ value.v = Word_null)

\* value.length > 0
HasLength(value) == value.t \in { "arr", "str" } /\ value.v # << >>

\* `x && x.length > 0`, then x.map(...): a TypeError unless x is an array
MapThrows(value) == Truthy(value) /\ HasLength(value) /\ value.t # "arr"

\* Whether generateMarkdownReport throws for the evaluations it is given,
\* the results holding a record per device. A value that is not an array has
\* no filter (when its length is positive) and no find; the callbacks read
\* properties of every element; a non-empty issues value is mapped. The
\* status section is written only for an evaluation whose device is a
\* captured device's name, which none of the sample evaluations is.
ReportThrows(evals) ==
    \/ evals.t # "arr"
    \/ \E k \in DOMAIN evals.v : IsNullish(evals.v[k])
    \/ \E k \in DOMAIN evals.v : MapThrows(Prop(evals.v[k], Key_issues))

\* <BQ> stands for the grave accent, U+0060
RawSectionOpen == << "<BQ>", "<BQ>", "<BQ>", "\n" >>

RawSectionClose == << "\n", "<BQ>", "<BQ>", "<BQ>", "\n" >>

\* the fenced block of the section "Raw AI Evaluation"
RawSection(raw) == RawSectionOpen \o raw \o RawSectionClose

\* generateMarkdownReport, as far as the raw section goes
generateMarkdownReport(evals, raw) ==
    [threw |-> ReportThrows(evals), rawSection |-> RawSection(raw)]

\* JSON.stringify({ evaluations: beforeEvals, raw: beforeRaw }, null, 2)
EvaluationDump(evals, raw) ==
    Stringify(JObject(<< << Key_evaluations, evals >>, << Key_raw, JString(raw) >> >>), 2, 0)

\* a file as written: its name and its text (of report.md, the raw section)
File(name, text) == [name |-> name, text |-> text]

NoFile == File("none", << >>)

(***************************************************************************)
(* The fix dispatcher of full-workflow.ts: the prompt applyFixes builds     *)
(* from the evaluations of the before pass.                                *)
(***************************************************************************)
\* e.suggestions || [], e.issues || []
OrEmpty(field) == IF field.present THEN field.items ELSE << >>

\* evaluations.flatMap((e) => e.suggestions || [])
AllSuggestions(evals) == Flatten([k \in DOMAIN evals |-> OrEmpty(evals[k].suggestions)])

\* evaluations.flatMap((e) => e.issues || [])
AllIssues(evals) == Flatten([k \in DOMAIN evals |-> OrEmpty(evals[k].issues)])

\* A variant of Unique that keeps every occurrence.
Unique_keepAll(list) == list

RECURSIVE Unique(_)
\* [...new Set(list)]: each value once, in the order of first occurrence
Unique(list) ==
    IF list = << >> THEN << >>
    ELSE LET before == Unique(SubSeq(list, 1, Len(list) - 1))
             last == list[Len(list)]
         IN  IF last \in Range(before) THEN before ELSE Append(before, last)

\* the two lists the prompt of applyFixes is made of
FixPrompt(evals) ==
    [priorityFixes |-> Unique(AllSuggestions(evals)), allIssues |-> AllIssues(evals)]

\* new CursorAgent({ ..., workingLocation: { type: "local", localDirectory:
\* targetRepo } }) and agent.submit({ message: prompt })
FixRequest(evals, targetRepo) ==
    [prompt |-> FixPrompt(evals), localDirectory |-> targetRepo]

\* the second command-line argument of full-workflow.ts
TargetRepo == "target-repo"

\* process.cwd(), the working location of the evaluating agent
WorkingDirectory == "cwd"

\* the exit status after process.exit(1)
ExitFatal == 1

\* the exit status when main returns, and when main rejects: the rejection
\* is handled by main().catch(console.error), which only logs
ExitDone == 0

ExitRejected == 0

(***************************************************************************)
(* The evaluations an agent may return in a run: lists of at most          *)
(* MaxRunEvals evaluations, whose suggestions and issues repeat within and *)
(* across evaluations.                                                     *)
(***************************************************************************)
MaxRunEvals == 2

RunEvaluation(device, issues, suggestions) ==
    DeviceEvaluation(device, "minor_issues", "", issues, suggestions, "issues")

RunEvaluations ==
    { RunEvaluation("iPhone 15 Pro", Present(<< "fix X", "fix X" >>),
                    Present(<< "use grid", "add max-width", "use grid" >>)),
      RunEvaluation("Android (Pixel 7)", Present(<< "fix X", "fix Y" >>),
                    Present(<< "add max-width", "use grid" >>)),
      RunEvaluation("Laptop 13-inch", Undefined, Undefined),
      RunEvaluation("Ultrawide", Present(<< >>), Present(<< "stack cards" >>)) }

RunEvaluationLists == SeqsUpTo(RunEvaluations, MaxRunEvals)

\* what the agent's stream does: it is interrupted, or it ends with a text
\* that cannot be decoded, or with a list of evaluations
Interrupted == [kind |-> "interrupted", evaluations |-> << >>]

Malformed == [kind |-> "malformed", evaluations |-> << >>]

Decoded(list) == [kind |-> "decoded", evaluations |-> list]

Responses == { Interrupted, Malformed } \cup { Decoded(list) : list \in RunEvaluationLists }

\* the most events a fix stream sends before it ends
MaxFixDeltas == 2

Passes(program) == IF program = "viewport-test" THEN << "only" >> ELSE << "before", "after" >>

\* an event of a run, for the record of what happened in which order
Event(e, pass, what) == [e |-> e, pass |-> pass, what |-> what]

EvaluationRequest(pass, devices, directory) ==
    [pass |-> pass, devices |-> devices, localDirectory |-> directory]

(***************************************************************************)
(* State.                                                                  *)
(***************************************************************************)
VARIABLES
    probeProgram,   \* the program whose accessibility check is applied
    probeDevice,    \* the device (a registry entry) the page is probed for
    probeDom,       \* the page the probe runs in
    probeIssues,    \* the accessibility issues the check returned
    probePc,        \* "idle" | "ready" | "done"
    capProgram,     \* the program whose capture loop runs
    capAccessibility, \* options.includeAccessibility (viewport-test.ts)
    capDir,         \* the directory the images are written to
    capPc,          \* the position in the capture function
    capBrowser,     \* "none" | "open" | "closed"
    capIndex,       \* the index in DEVICES of the device being captured
    capPage,        \* the open pages: a set of device indices
    capNav,         \* the outcome of the current page's navigation, or "none"
    capDom,         \* the page the current navigation left
    capFiles,       \* the image files written: a set of paths
    capNavLog,      \* the navigation outcomes of the devices so far, in order
    capResults,     \* results: the ScreenshotResult records pushed
    capAuditLog,    \* what the accessibility probe did for each device so far
    capPrompt,      \* the evaluation prompt built from the returned results
    beforeEvals,    \* the evaluations of the before run
    afterEvals,     \* the evaluations of the after run
    report,         \* the comparison report
    cmpPc,          \* "idle" | "ready" | "done"
    stream,         \* the events of the agent's stream not yet received
    rawResponse,    \* the text received so far
    evaluations,    \* the evaluations decoded from the text: a JSON value
    evalPc,         \* idle, stream, returned, threw, written or rejected
    evalProgram,    \* the program the evaluation runs in
    evalSent,       \* all the events of the agent's stream, as sent
    evalOutput,     \* the file written from the evaluation
    runProgram,     \* the program whose main runs
    runKey,         \* whether CURSOR_API_KEY is set
    runPc,          \* the position in main
    runPass,        \* the pass of main: only, before or after
    runCaptured,    \* the devices captured in the current pass, in order
    runEvals,       \* the evaluations each pass returned
    runLog,         \* the events of the run so far, in order
    runRequests,    \* the evaluation requests submitted to the agent
    runFixRequests, \* the fix requests submitted to the agent
    runFiles,       \* the files written, in order
    runFixLeft,     \* the events the fix stream still sends
    runExit         \* the exit status, once runPc is exited

probeVars == << probeProgram, probeDevice, probeDom, probeIssues, probePc >>

capVars == << capProgram, capAccessibility, capDir, capPc, capBrowser, capIndex,
              capPage, capNav, capDom, capFiles, capNavLog, capResults,
              capAuditLog, capPrompt >>

cmpVars == << beforeEvals, afterEvals, report, cmpPc >>

evalVars == << stream, rawResponse, evaluations, evalPc, evalProgram, evalSent,
               evalOutput >>

runVars == << runProgram, runKey, runPc, runPass, runCaptured, runEvals, runLog,
              runRequests, runFixRequests, runFiles, runFixLeft, runExit >>

vars == << probeVars, capVars, cmpVars, evalVars, runVars >>

(***************************************************************************)
(* The accessibility check applied to one page for one device.            *)
(***************************************************************************)
CaptureIdle ==
    /\ capProgram = "viewport-test"
    /\ capAccessibility = FALSE
    /\ capDir = "images"
    /\ capPc = "idle"
    /\ capBrowser = "none"
    /\ capIndex = 0
    /\ capPage = {}
    /\ capNav = "none"
    /\ capDom = << >>
    /\ capFiles = {}
    /\ capNavLog = << >>
    /\ capResults = << >>
    /\ capAuditLog = << >>
    /\ capPrompt = NoPrompt

CompareIdle ==
    /\ beforeEvals = << >>
    /\ afterEvals = << >>
    /\ report = NoReport
    /\ cmpPc = "idle"

EvalIdle ==
    /\ stream = << >>
    /\ rawResponse = << >>
    /\ evaluations = NoEvaluations
    /\ evalPc = "idle"
    /\ evalProgram = "viewport-test"
    /\ evalSent = << >>
    /\ evalOutput = NoFile

RunIdle ==
    /\ runProgram = "viewport-test"
    /\ runKey = TRUE
    /\ runPc = "idle"
    /\ runPass = "only"
    /\ runCaptured = << >>
    /\ runEvals = [pass \in { "only", "before", "after" } |-> << >>]
    /\ runLog = << >>
    /\ runRequests = << >>
    /\ runFixRequests = << >>
    /\ runFiles = << >>
    /\ runFixLeft = 0
    /\ runExit = 0

ProbeIdle ==
    /\ probeProgram = "viewport-test"
    /\ probeDevice = DEVICES_viewport[1]
    /\ probeDom = << >>
    /\ probeIssues = << >>
    /\ probePc = "idle"

InitProbe ==
    /\ probeProgram \in Programs
    /\ \E i \in DOMAIN DEVICES(probeProgram) : probeDevice = DEVICES(probeProgram)[i]
    /\ probeDom \in Pages
    /\ probeIssues = << >>
    /\ probePc = "ready"
    /\ CaptureIdle
    /\ CompareIdle
    /\ EvalIdle
    /\ RunIdle

\* viewport-test.ts: const issues = await analyzeAccessibility(page, device)
AnalyzeAccessibility ==
    /\ probePc = "ready"
    /\ probeProgram = "viewport-test"
    /\ probeIssues' = analyzeAccessibility(probeDom, probeDevice)
    /\ probePc' = "done"
    /\ UNCHANGED << probeProgram, probeDevice, probeDom >>
    /\ UNCHANGED << capVars, cmpVars, evalVars, runVars >>

\* full-workflow.ts: the "Accessibility check" block of takeScreenshots
WorkflowAccessibilityCheck ==
    /\ probePc = "ready"
    /\ probeProgram = "full-workflow"
    /\ probeIssues' = workflowAccessibilityCheck(probeDom, probeDevice)
    /\ probePc' = "done"
    /\ UNCHANGED << probeProgram, probeDevice, probeDom >>
    /\ UNCHANGED << capVars, cmpVars, evalVars, runVars >>

NextProbe == AnalyzeAccessibility \/ WorkflowAccessibilityCheck

SpecProbe == InitProbe /\ [][NextProbe]_vars

(***************************************************************************)
(* The capture loops: takeMultiViewportScreenshots (viewport-test.ts) and  *)
(* takeScreenshots (full-workflow.ts).  One action per await.              *)
(***************************************************************************)
CaptureStart ==
    /\ capProgram \in Programs
    /\ capAccessibility \in (IF capProgram = "viewport-test" THEN BOOLEAN ELSE { TRUE })
    /\ capDir \in (IF capProgram = "viewport-test" THEN { "images" } ELSE { "before", "after" })
    /\ capPc = "launch"
    /\ capBrowser = "none"
    /\ capIndex = 0
    /\ capPage = {}
    /\ capNav = "none"
    /\ capDom = << >>
    /\ capFiles = {}
    /\ capNavLog = << >>
    /\ capResults = << >>
    /\ capAuditLog = << >>
    /\ capPrompt = NoPrompt

InitCapture == CaptureStart /\ ProbeIdle /\ CompareIdle /\ EvalIdle /\ RunIdle

CurrentDevice == DEVICES(capProgram)[capIndex]

\* const browser = await puppeteer.launch(...): resolves, or rejects and
\* the capture function rejects with it.
Launch ==
    /\ capPc = "launch"
    /\ \/ /\ capBrowser' = "open"
          /\ capIndex' = 1
          /\ capPc' = "loop"
       \/ /\ capPc' = "failed"
          /\ UNCHANGED << capBrowser, capIndex >>
    /\ UNCHANGED << capPrompt, capAuditLog, capProgram, capAccessibility, capDir, capPage, capNav, capDom,
                    capFiles, capNavLog, capResults >>
    /\ UNCHANGED << probeVars, cmpVars, evalVars, runVars >>

\* for (const device of DEVICES): const page = await browser.newPage();
\* setViewport; setUserAgent
NewPage ==
    /\ capPc = "loop"
    /\ capIndex <= Len(DEVICES(capProgram))
    /\ capPage' = capPage \cup { capIndex }
    /\ capNav' = "none"
    /\ capDom' = << >>
    /\ capPc' = "goto"
    /\ UNCHANGED << capPrompt, capAuditLog, capProgram, capAccessibility, capDir, capBrowser, capIndex,
                    capFiles, capNavLog, capResults >>
    /\ UNCHANGED << probeVars, cmpVars, evalVars, runVars >>

\* A variant of AfterGoto in which a failed navigation is not caught: the
\* exception leaves the loop and the function.
AfterGoto_uncaught(outcome) == IF outcome = "loaded" THEN "screenshot" ELSE "failed"

\* A variant of AfterGoto in which a failed navigation is swallowed but the
\* device is given up: no screenshot, no record, on to the next device.
AfterGoto_skipDevice(outcome) == IF outcome = "loaded" THEN "screenshot" ELSE "closePage"

\* try { await page.goto(url, ...) } catch { }: where the loop goes on
AfterGoto(outcome) == "screenshot"

Goto ==
    /\ capPc = "goto"
    /\ \E outcome \in NavigationOutcomes :
          /\ capNav' = outcome
          /\ capNavLog' = Append(capNavLog, outcome)
          /\ capDom' \in PagesAfter(outcome)
          /\ capPc' = AfterGoto(outcome)
    /\ UNCHANGED << capPrompt, capAuditLog, capProgram, capAccessibility, capDir, capBrowser, capIndex,
                    capPage, capFiles, capResults >>
    /\ UNCHANGED << probeVars, cmpVars, evalVars, runVars >>

\* await new Promise(setTimeout); await page.screenshot({ path })
Screenshot ==
    /\ capPc = "screenshot"
    /\ capFiles' = capFiles \cup { ScreenshotPath(capDir, CurrentDevice.name) }
    /\ capPc' = "audit"
    /\ UNCHANGED << capPrompt, capAuditLog, capProgram, capAccessibility, capDir, capBrowser, capIndex,
                    capPage, capNav, capDom, capNavLog, capResults >>
    /\ UNCHANGED << probeVars, cmpVars, evalVars, runVars >>

\* viewport-test.ts: the result as it is pushed.  Without the option, or
\* when the audit throws, accessibilityIssues stays undefined.
ViewportResult(device, dir, dom, audit, throws) ==
    IF audit /\ ~throws
    THEN ScreenshotResult(device, dir, TRUE, analyzeAccessibility(dom, device))
    ELSE ScreenshotResult(device, dir, FALSE, << >>)

\* full-workflow.ts: the result as it is pushed.  issues starts as [] and
\* stays so when the check throws.
WorkflowResult(device, dir, dom, throws) ==
    IF ~throws
    THEN ScreenshotResult(device, dir, TRUE, workflowAccessibilityCheck(dom, device))
    ELSE ScreenshotResult(device, dir, TRUE, << >>)

\* The outcomes of the accessibility probe for a device: it is not run
\* (viewport-test.ts without --accessibility), it returns, or it throws.
AuditOutcomes(program, audit) ==
    IF program = "viewport-test" /\ ~audit THEN { "off" } ELSE { "ok", "threw" }

\* A variant of AfterAudit in which the probe's exception is not caught:
\* it leaves the loop and the function before results.push.
AfterAudit_uncaught(outcome) == IF outcome = "threw" THEN "failed" ELSE "closePage"

\* try { ... analyzeAccessibility ... } catch { }: where the loop goes on
AfterAudit(outcome) == "closePage"

\* The accessibility audit inside its try/catch, then results.push(result)
Audit ==
    /\ capPc = "audit"
    /\ \E outcome \in AuditOutcomes(capProgram, capAccessibility) :
          /\ capAuditLog' = Append(capAuditLog, outcome)
          /\ capPc' = AfterAudit(outcome)
          /\ capResults' =
                IF AfterAudit(outcome) = "failed" THEN capResults
                ELSE Append(capResults,
                        IF capProgram = "viewport-test"
                        THEN ViewportResult(CurrentDevice, capDir, capDom,
                                            capAccessibility, outcome = "threw")
                        ELSE WorkflowResult(CurrentDevice, capDir, capDom,
                                            outcome = "threw"))
    /\ UNCHANGED << capPrompt, capProgram, capAccessibility, capDir, capBrowser, capIndex,
                    capPage, capNav, capDom, capFiles, capNavLog >>
    /\ UNCHANGED << probeVars, cmpVars, evalVars, runVars >>

\* A variant of ClosePage that closes the page only when its navigation
\* had succeeded.
ClosePage_onlyWhenLoaded ==
    /\ capPc = "closePage"
    /\ capPage' = IF capNav = "loaded" THEN capPage \ { capIndex } ELSE capPage
    /\ capIndex' = capIndex + 1
    /\ capPc' = "loop"
    /\ UNCHANGED << capPrompt, capAuditLog, capProgram, capAccessibility, capDir, capBrowser, capNav,
                    capDom, capFiles, capNavLog, capResults >>
    /\ UNCHANGED << probeVars, cmpVars, evalVars, runVars >>

\* A variant of ClosePage that goes on to the next device with the page
\* left open.
ClosePage_leak ==
    /\ capPc = "closePage"
    /\ capIndex' = capIndex + 1
    /\ capPc' = "loop"
    /\ UNCHANGED << capPrompt, capAuditLog, capProgram, capAccessibility, capDir, capBrowser, capNav,
                    capDom, capFiles, capNavLog, capResults, capPage >>
    /\ UNCHANGED << probeVars, cmpVars, evalVars, runVars >>

\* await page.close(), and on to the next device
ClosePage ==
    /\ capPc = "closePage"
    /\ capPage' = capPage \ { capIndex }
    /\ capIndex' = capIndex + 1
    /\ capPc' = "loop"
    /\ UNCHANGED << capPrompt, capAuditLog, capProgram, capAccessibility, capDir, capBrowser, capNav, capDom,
                    capFiles, capNavLog, capResults >>
    /\ UNCHANGED << probeVars, cmpVars, evalVars, runVars >>

\* await browser.close(); return results
CloseBrowser ==
    /\ capPc = "loop"
    /\ capIndex > Len(DEVICES(capProgram))
    /\ capBrowser' = "closed"
    /\ capPc' = "returned"
    /\ UNCHANGED << capPrompt, capAuditLog, capProgram, capAccessibility, capDir, capIndex, capPage, capNav,
                    capDom, capFiles, capNavLog, capResults >>
    /\ UNCHANGED << probeVars, cmpVars, evalVars, runVars >>

\* evaluateScreenshots / evaluateWithAgent, called with the returned
\* results: the prompt is built
BuildPrompt ==
    /\ capPc = "returned"
    /\ capPrompt = NoPrompt
    /\ capPrompt' = EvaluationPrompt(capProgram, capResults, capAccessibility)
    /\ UNCHANGED << capAuditLog, capProgram, capAccessibility, capDir, capPc, capBrowser,
                    capIndex, capPage, capNav, capDom, capFiles, capNavLog, capResults >>
    /\ UNCHANGED << probeVars, cmpVars, evalVars, runVars >>

NextCapture ==
    \/ BuildPrompt
    \/ Launch
    \/ NewPage
    \/ Goto
    \/ Screenshot
    \/ Audit
    \/ ClosePage
    \/ CloseBrowser

SpecCapture == InitCapture /\ [][NextCapture]_vars

\* Every awaited call of the loop settles: the browser answers each of
\* them, so the function does not stay at an await for ever.
SpecCaptureLive == SpecCapture /\ WF_vars(NextCapture)

(***************************************************************************)
(* The comparison report of full-workflow.ts applied to two evaluation     *)
(* lists.                                                                  *)
(***************************************************************************)
InitCompare ==
    /\ \/ /\ beforeEvals \in AnswersPerDevice(BeforeBodies)
          /\ afterEvals \in AnswersPerDevice(AfterBodies)
       \/ /\ beforeEvals \in AnswersFirstDevice("broken", "")
          /\ afterEvals \in AnswersFirstDevice("good", "good")
       \/ /\ beforeEvals \in AnswersAnyOrder
          /\ afterEvals \in AnswersAnyOrder
    /\ report = NoReport
    /\ cmpPc = "ready"
    /\ ProbeIdle
    /\ CaptureIdle
    /\ EvalIdle
    /\ RunIdle

\* const comparisonMd = generateComparisonReport(...)
GenerateComparisonReport ==
    /\ cmpPc = "ready"
    /\ report' = generateComparisonReport(beforeEvals, afterEvals)
    /\ cmpPc' = "done"
    /\ UNCHANGED << beforeEvals, afterEvals >>
    /\ UNCHANGED << probeVars, capVars, evalVars, runVars >>

\* viewport-test.ts: const markdown = generateMarkdownReport(url, results,
\* evaluations, ...), the sections of the capture results; the evaluations
\* are the list decoded from the only pass.
GenerateMarkdownReport ==
    /\ cmpPc = "ready"
    /\ report' = ResultSections(beforeEvals)
    /\ cmpPc' = "reported"
    /\ UNCHANGED << beforeEvals, afterEvals >>
    /\ UNCHANGED << probeVars, capVars, evalVars, runVars >>

NextCompare == GenerateComparisonReport \/ GenerateMarkdownReport

SpecCompare == InitCompare /\ [][NextCompare]_vars

(***************************************************************************)
(* The evaluation of evaluateScreenshots and evaluateWithAgent from the    *)
(* submitted prompt on: the stream is drained, then its text is decoded.   *)
(***************************************************************************)
InitEvaluate ==
    /\ stream \in Streams
    /\ rawResponse = << >>
    /\ evaluations = NoEvaluations
    /\ evalPc = "stream"
    /\ evalProgram \in Programs
    /\ evalSent = stream
    /\ evalOutput = NoFile
    /\ ProbeIdle
    /\ CaptureIdle
    /\ CompareIdle
    /\ RunIdle

\* A variant of ReceiveDelta that appends the text of every event that has
\* one, whatever its tag.
ReceiveDelta_anyText ==
    /\ evalPc = "stream"
    /\ stream # << >>
    /\ rawResponse' = rawResponse \o Head(stream).text
    /\ stream' = Tail(stream)
    /\ UNCHANGED << evaluations, evalPc, evalProgram, evalSent, evalOutput >>
    /\ UNCHANGED << probeVars, capVars, cmpVars, runVars >>

\* one turn of `for await (const delta of stream)`
ReceiveDelta ==
    /\ evalPc = "stream"
    /\ stream # << >>
    /\ rawResponse' = IF Head(stream).type = "text-delta"
                      THEN rawResponse \o Head(stream).text
                      ELSE rawResponse
    /\ stream' = Tail(stream)
    /\ UNCHANGED << evaluations, evalPc, evalProgram, evalSent, evalOutput >>
    /\ UNCHANGED << probeVars, capVars, cmpVars, runVars >>

\* the stream has ended: try { ... } catch { ... }, then the return
ParseResponse ==
    /\ evalPc = "stream"
    /\ stream = << >>
    /\ LET decoded == DecodeEvaluations(rawResponse)
       IN  /\ evaluations' = decoded.evaluations
           /\ evalPc' = IF decoded.threw THEN AfterSyntaxError ELSE "returned"
    /\ UNCHANGED << stream, rawResponse, evalProgram, evalSent, evalOutput >>
    /\ UNCHANGED << probeVars, capVars, cmpVars, runVars >>

\* What main does with the returned pair: viewport-test.ts generates the
\* report and writes report.md, and main rejects when the generation
\* throws; full-workflow.ts writes the evaluation dump.
WriteOutput ==
    /\ evalPc = "returned"
    /\ IF evalProgram = "viewport-test"
       THEN LET markdown == generateMarkdownReport(evaluations, rawResponse)
            IN  IF markdown.threw
                THEN evalPc' = "rejected" /\ UNCHANGED evalOutput
                ELSE /\ evalPc' = "written"
                     /\ evalOutput' = File("report.md", markdown.rawSection)
       ELSE /\ evalPc' = "written"
            /\ evalOutput' = File("evaluation.json", EvaluationDump(evaluations, rawResponse))
    /\ UNCHANGED << stream, rawResponse, evaluations, evalProgram, evalSent >>
    /\ UNCHANGED << probeVars, capVars, cmpVars, runVars >>

NextEvaluate == ReceiveDelta \/ ParseResponse \/ WriteOutput

SpecEvaluate == InitEvaluate /\ [][NextEvaluate]_vars

(***************************************************************************)
(* A run of main: viewport-test.ts captures, evaluates and reports;        *)
(* full-workflow.ts captures and evaluates, has the fixes applied, captures*)
(* and evaluates again, and compares.  The capture of one device and the   *)
(* decoding of an answer are single steps here.                            *)
(***************************************************************************)
InitRun ==
    /\ runProgram \in Programs
    /\ runKey \in BOOLEAN
    /\ runPc = "launch"
    /\ runPass = Passes(runProgram)[1]
    /\ runCaptured = << >>
    /\ runEvals = [pass \in { "only", "before", "after" } |-> << >>]
    /\ runLog = << >>
    /\ runRequests = << >>
    /\ runFixRequests = << >>
    /\ runFiles = << >>
    /\ runFixLeft = 0
    /\ runExit = 0
    /\ ProbeIdle
    /\ CaptureIdle
    /\ CompareIdle
    /\ EvalIdle

RunDevices == DEVICES(runProgram)

\* const browser = await puppeteer.launch(...) in the capture function: it
\* resolves, or it rejects and main rejects with it
RunLaunch ==
    /\ runPc = "launch"
    /\ \/ /\ runLog' = Append(runLog, Event("launch", runPass, ""))
          /\ runPc' = "capture"
          /\ UNCHANGED runExit
       \/ /\ runLog' = Append(runLog, Event("launch-failed", runPass, ""))
          /\ runPc' = "exited"
          /\ runExit' = ExitRejected
    /\ UNCHANGED << runProgram, runKey, runPass, runCaptured, runEvals, runRequests,
                    runFixRequests, runFiles, runFixLeft >>
    /\ UNCHANGED << probeVars, capVars, cmpVars, evalVars >>

\* one turn of the capture loop: the device's record is pushed
RunCapture ==
    /\ runPc = "capture"
    /\ Len(runCaptured) < Len(RunDevices)
    /\ LET device == RunDevices[Len(runCaptured) + 1].name
       IN  /\ runCaptured' = Append(runCaptured, device)
           /\ runLog' = Append(runLog, Event("captured", runPass, device))
    /\ UNCHANGED << runProgram, runKey, runPc, runPass, runEvals, runRequests,
                    runFixRequests, runFiles, runFixLeft, runExit >>
    /\ UNCHANGED << probeVars, capVars, cmpVars, evalVars >>

\* The capture function has returned and the evaluating function begins:
\* if (!apiKey) { console.error(...); process.exit(1); }
CheckCredential ==
    /\ runPc = "capture"
    /\ Len(runCaptured) = Len(RunDevices)
    /\ IF runKey
       THEN runPc' = "submit" /\ UNCHANGED << runExit, runLog >>
       ELSE /\ runPc' = "exited"
            /\ runExit' = ExitFatal
            /\ runLog' = Append(runLog, Event("no-credential", runPass, ""))
    /\ UNCHANGED << runProgram, runKey, runPass, runCaptured, runEvals, runRequests,
                    runFixRequests, runFiles, runFixLeft >>
    /\ UNCHANGED << probeVars, capVars, cmpVars, evalVars >>

\* the prompt lists every record of results: agent.submit({ message: prompt })
SubmitEvaluation ==
    /\ runPc = "submit"
    /\ runRequests' = Append(runRequests,
                             EvaluationRequest(runPass, runCaptured, WorkingDirectory))
    /\ runLog' = Append(runLog, Event("submit-evaluation", runPass, ""))
    /\ runPc' = "evaluationStream"
    /\ UNCHANGED << runProgram, runKey, runPass, runCaptured, runEvals,
                    runFixRequests, runFiles, runFixLeft, runExit >>
    /\ UNCHANGED << probeVars, capVars, cmpVars, evalVars >>

\* A variant of AfterDecode that prompts again after an answer that could
\* not be decoded.
AfterDecode_retry(response) == IF response.kind = "malformed" THEN "submit" ELSE "save"

\* the catch of the decoding only logs; the function returns the pair
AfterDecode(response) == "save"

\* The stream is drained and its text decoded, or the stream is interrupted
\* and main rejects.
EvaluationStream ==
    /\ runPc = "evaluationStream"
    /\ \E response \in Responses :
          IF response.kind = "interrupted"
          THEN /\ runPc' = "exited"
               /\ runExit' = ExitRejected
               /\ runLog' = Append(runLog, Event("evaluation-stream-interrupted", runPass, ""))
               /\ UNCHANGED runEvals
          ELSE /\ runPc' = AfterDecode(response)
               /\ runEvals' = [runEvals EXCEPT ![runPass] = response.evaluations]
               /\ runLog' = Append(runLog, Event("evaluation-" \o response.kind, runPass, ""))
               /\ UNCHANGED runExit
    /\ UNCHANGED << runProgram, runKey, runPass, runCaptured, runRequests,
                    runFixRequests, runFiles, runFixLeft >>
    /\ UNCHANGED << probeVars, capVars, cmpVars, evalVars >>

\* viewport-test.ts writes report.md (and the PDF, whose failure is caught)
\* and main returns; full-workflow.ts writes the evaluation dump of the pass
SaveEvaluation ==
    /\ runPc = "save"
    /\ IF runProgram = "viewport-test"
       THEN /\ runFiles' = Append(runFiles, "report.md")
            /\ runPc' = "exited"
            /\ runExit' = ExitDone
       ELSE /\ runFiles' = Append(runFiles, runPass \o "-evaluation.json")
            /\ runPc' = IF runPass = "before" THEN "applyFixes" ELSE "compare"
            /\ UNCHANGED runExit
    /\ UNCHANGED << runProgram, runKey, runPass, runCaptured, runEvals, runLog,
                    runRequests, runFixRequests, runFixLeft >>
    /\ UNCHANGED << probeVars, capVars, cmpVars, evalVars >>

\* A variant of AfterSubmitFix in which applyFixes returns without draining
\* the stream.
AfterSubmitFix_detached == "wait"

\* const { stream } = agent.submit(...); for await (const delta of stream)
AfterSubmitFix == "fixStream"

\* applyFixes up to its submit: the credential check, the agent on the
\* target repository, the prompt, the one request
SubmitFix ==
    /\ runPc = "applyFixes"
    /\ IF runKey
       THEN /\ runFixRequests' = Append(runFixRequests,
                                        FixRequest(runEvals["before"], TargetRepo))
            /\ runLog' = Append(runLog, Event("submit-fix", runPass, ""))
            /\ runPc' = AfterSubmitFix
            /\ runFixLeft' \in 0..MaxFixDeltas
            /\ UNCHANGED runExit
       ELSE /\ runPc' = "exited"
            /\ runExit' = ExitFatal
            /\ runLog' = Append(runLog, Event("no-credential", runPass, ""))
            /\ UNCHANGED << runFixRequests, runFixLeft >>
    /\ UNCHANGED << runProgram, runKey, runPass, runCaptured, runEvals, runRequests,
                    runFiles >>
    /\ UNCHANGED << probeVars, capVars, cmpVars, evalVars >>

\* one event of the fix stream is received and echoed
FixDelta ==
    /\ runPc = "fixStream"
    /\ runFixLeft > 0
    /\ runFixLeft' = runFixLeft - 1
    /\ runLog' = Append(runLog, Event("fix-delta", runPass, ""))
    /\ UNCHANGED << runProgram, runKey, runPc, runPass, runCaptured, runEvals,
                    runRequests, runFixRequests, runFiles, runExit >>
    /\ UNCHANGED << probeVars, capVars, cmpVars, evalVars >>

\* the fix stream ends and applyFixes returns
FixStreamEnd ==
    /\ runPc = "fixStream"
    /\ runFixLeft = 0
    /\ runLog' = Append(runLog, Event("fix-stream-end", runPass, ""))
    /\ runPc' = "wait"
    /\ UNCHANGED << runProgram, runKey, runPass, runCaptured, runEvals, runRequests,
                    runFixRequests, runFiles, runFixLeft, runExit >>
    /\ UNCHANGED << probeVars, capVars, cmpVars, evalVars >>

\* the fix stream is interrupted: the for await throws, applyFixes and main
\* reject
FixStreamInterrupted ==
    /\ runPc = "fixStream"
    /\ runLog' = Append(runLog, Event("fix-stream-interrupted", runPass, ""))
    /\ runPc' = "exited"
    /\ runExit' = ExitRejected
    /\ UNCHANGED << runProgram, runKey, runPass, runCaptured, runEvals, runRequests,
                    runFixRequests, runFiles, runFixLeft >>
    /\ UNCHANGED << probeVars, capVars, cmpVars, evalVars >>

\* A variant of WaitForReload that goes on to the comparison without an
\* after pass.
WaitForReload_skipAfter ==
    /\ runPc = "wait"
    /\ runPc' = "compare"
    /\ UNCHANGED << runProgram, runKey, runPass, runCaptured, runEvals, runLog, runRequests,
                    runFixRequests, runFiles, runFixLeft, runExit >>
    /\ UNCHANGED << probeVars, capVars, cmpVars, evalVars >>

\* await new Promise((r) => setTimeout(r, 5000)), then the after pass
WaitForReload ==
    /\ runPc = "wait"
    /\ runPass' = "after"
    /\ runCaptured' = << >>
    /\ runPc' = "launch"
    /\ UNCHANGED << runProgram, runKey, runEvals, runLog, runRequests, runFixRequests,
                    runFiles, runFixLeft, runExit >>
    /\ UNCHANGED << probeVars, capVars, cmpVars, evalVars >>

\* generateComparisonReport, writeFileSync(comparison.md), the PDF (whose
\* failure is caught), and main returns
WriteComparison ==
    /\ runPc = "compare"
    /\ runFiles' = Append(runFiles, "comparison.md")
    /\ runPc' = "exited"
    /\ runExit' = ExitDone
    /\ UNCHANGED << runProgram, runKey, runPass, runCaptured, runEvals, runLog,
                    runRequests, runFixRequests, runFixLeft >>
    /\ UNCHANGED << probeVars, capVars, cmpVars, evalVars >>

NextRun ==
    \/ RunLaunch
    \/ RunCapture
    \/ CheckCredential
    \/ SubmitEvaluation
    \/ EvaluationStream
    \/ SaveEvaluation
    \/ SubmitFix
    \/ FixDelta
    \/ FixStreamEnd
    \/ FixStreamInterrupted
    \/ WaitForReload
    \/ WriteComparison

SpecRun == InitRun /\ [][NextRun]_vars

(***************************************************************************)
(* Claims about the accessibility check.                                   *)
(***************************************************************************)
IssueTypes(issues) == [ i \in DOMAIN issues |-> issues[i].type ]

\* The interactive elements of rule 2 that are smaller than 44 in width or
\* height, stated on the page itself.
SmallInteractive(dom) ==
    { i \in DOMAIN dom :
        /\ dom[i].tag \in {"button", "a", "input", "select"} \/ dom[i].role = "button"
        /\ dom[i].width < 44 \/ dom[i].height < 44 }

\* C9: for a device whose isMobile flag is false, the accessibility check
\* (of either program) returns no small-touch-target finding, whatever the
\* page holds.
C9_NoTouchFindingOffMobile ==
    (probePc = "done" /\ ~probeDevice.isMobile) =>
        \A i \in DOMAIN probeIssues :
            probeIssues[i].type \notin {"small-touch-target", "small-touch-targets"}

\* C9 witness: the check has run for a non-mobile device on a page with
\* several interactive elements below 44.
C9_Witness ==
    /\ probePc = "done"
    /\ probeProgram = "viewport-test"
    /\ ~probeDevice.isMobile
    /\ Cardinality(SmallInteractive(probeDom)) >= 3

\* The triggering conditions of the five rules, stated on the page itself.
Rule1_MissingAlt(dom) ==
    \E i \in DOMAIN dom : dom[i].tag = "img" /\ dom[i].alt = "" /\ dom[i].ariaLabel = ""

Rule2_SmallTouchTarget(dom, isMobile) == isMobile /\ SmallInteractive(dom) # {}

Rule3_MissingLabel(dom) ==
    \E i \in DOMAIN dom :
        /\ dom[i].tag \in {"input", "select", "textarea"}
        /\ ~\E j \in DOMAIN dom :
              dom[j].tag = "label" /\ dom[i].id # "" /\ dom[j].for = dom[i].id
        /\ dom[i].ariaLabel = ""
        /\ dom[i].ariaLabelledBy = ""

Rule4_MissingLandmarks(dom) ==
    \/ ~\E i \in DOMAIN dom : dom[i].tag = "main" \/ dom[i].role = "main"
    \/ ~\E i \in DOMAIN dom : dom[i].tag = "nav" \/ dom[i].role = "navigation"

Rule5_MissingHeadings(dom) ==
    ~\E i \in DOMAIN dom : dom[i].tag \in {"h1", "h2", "h3", "h4", "h5", "h6"}

\* The kinds the claim expects, in the fixed order, for a page and a device.
ExpectedKinds(dom, isMobile) ==
       (IF Rule1_MissingAlt(dom) THEN << "missing-alt-text" >> ELSE << >>)
    \o (IF Rule2_SmallTouchTarget(dom, isMobile) THEN << "small-touch-target" >> ELSE << >>)
    \o (IF Rule3_MissingLabel(dom) THEN << "missing-label" >> ELSE << >>)
    \o (IF Rule4_MissingLandmarks(dom) THEN << "missing-landmarks" >> ELSE << >>)
    \o (IF Rule5_MissingHeadings(dom) THEN << "missing-headings" >> ELSE << >>)

NoZeroCount(issues) == \A i \in DOMAIN issues : issues[i].hasCount => issues[i].count > 0

\* C10: in every capture path the finding list is the subsequence of
\* [missing-alt-text, small-touch-target, missing-label, missing-landmarks,
\* missing-headings] holding exactly the kinds whose rule triggers, and no
\* finding has a zero count.
C10_FindingsInFixedOrder ==
    probePc = "done" =>
        /\ IssueTypes(probeIssues) = ExpectedKinds(probeDom, probeDevice.isMobile)
        /\ NoZeroCount(probeIssues)

\* C10 restricted to analyzeAccessibility of viewport-test.ts, where it holds.
C10_ViewportFindingsInFixedOrder ==
    (probePc = "done" /\ probeProgram = "viewport-test") =>
        /\ IssueTypes(probeIssues) = ExpectedKinds(probeDom, probeDevice.isMobile)
        /\ NoZeroCount(probeIssues)

\* C10 witness of the divergence: takeScreenshots of full-workflow.ts has
\* probed a page without any heading that has both landmarks, and reports
\* nothing about headings.
C10_WorkflowDropsHeadings ==
    /\ probePc = "done"
    /\ probeProgram = "full-workflow"
    /\ Rule5_MissingHeadings(probeDom)
    /\ ~Rule4_MissingLandmarks(probeDom)
    /\ "missing-headings" \notin Range(IssueTypes(probeIssues))

(***************************************************************************)
(* Claims about the capture loops.                                         *)
(***************************************************************************)
\* C1: once the browser was launched, the capture function returns exactly
\* one record per registry entry, in registry order, with pairwise distinct
\* device names, whatever the navigations did; the function ends without
\* returning only when the browser could not be launched.
C1_OneRecordPerDevice ==
    /\ capPc = "returned" =>
          /\ Len(capResults) = Len(DEVICES(capProgram))
          /\ \A i \in DOMAIN capResults : capResults[i].device = DEVICES(capProgram)[i].name
          /\ \A i, j \in DOMAIN capResults :
                i # j => capResults[i].device # capResults[j].device
    /\ capPc = "failed" => capBrowser = "none"

\* C1 witness: the loop has returned after a run in which one navigation
\* timed out, one failed with an error and one loaded.
C1_Witness ==
    /\ capPc = "returned"
    /\ { "loaded", "timeout", "error" } \subseteq Range(capNavLog)

(***************************************************************************)
(* Claims about the comparison report.                                     *)
(***************************************************************************)
Registry == DEVICES_workflow

HasEvaluation(evals, name) == \E i \in DOMAIN evals : evals[i].device = name

\* The first evaluation of a device in a list that has one.
EvaluationOf(evals, name) ==
    evals[CHOOSE i \in DOMAIN evals :
            /\ evals[i].device = name
            /\ \A j \in 1..(i - 1) : evals[j].device # name]

EveryDeviceEvaluated(evals) ==
    \A i \in DOMAIN Registry : HasEvaluation(evals, Registry[i].name)

\* C2: when some registry device has no after-evaluation, the report does
\* not say that all viewports pass.
C2_MissingAfterEvaluationNotReady ==
    (cmpPc = "done" /\ ~EveryDeviceEvaluated(afterEvals)) => ~report.allPass

\* C2 witness of the divergence: the after-run's evaluation list is empty
\* and the report says that all viewports pass.
C2_EmptyAfterRunReady ==
    /\ cmpPc = "done"
    /\ afterEvals = << >>
    /\ report.allPass

\* C3: when every registry device has an after-evaluation, the report says
\* that all viewports pass exactly when every after-evaluation has status
\* good and an accessibility status that is absent or good.
C3_ReadyIffAllGood ==
    (cmpPc = "done" /\ EveryDeviceEvaluated(afterEvals)) =>
        (report.allPass <=>
            \A i \in DOMAIN afterEvals :
                /\ afterEvals[i].status = "good"
                /\ afterEvals[i].accessibility_status \in { "", "good" })

\* C3 witness of the divergence: every device is evaluated good, none has
\* an accessibility status other than good or none at all, and the report
\* does not say that all viewports pass.
C3_GoodWithoutA11yStatusNotReady ==
    /\ cmpPc = "done"
    /\ EveryDeviceEvaluated(afterEvals)
    /\ \A i \in DOMAIN afterEvals :
          /\ afterEvals[i].status = "good"
          /\ afterEvals[i].accessibility_status \in { "", "good" }
    /\ ~report.allPass

\* The status markers of a report's sections, with what they stand for:
\* the status of the device's evaluation on that side, or "unknown".
MarkedStatuses(rep, before, after) ==
    { << rep.sections[i].beforeStatus,
         IF HasEvaluation(before, Registry[i].name)
         THEN EvaluationOf(before, Registry[i].name).status ELSE "unknown" >> :
        i \in DOMAIN rep.sections }
    \cup
    { << rep.sections[i].afterStatus,
         IF HasEvaluation(after, Registry[i].name)
         THEN EvaluationOf(after, Registry[i].name).status ELSE "unknown" >> :
        i \in DOMAIN rep.sections }

\* C4: in the status transitions of a report, a device without evaluation
\* on a side never carries the marker that a device evaluated good or
\* broken carries.
C4_UnknownStatusDistinct ==
    cmpPc = "done" =>
        \A m1, m2 \in MarkedStatuses(report, beforeEvals, afterEvals) :
            (m1[2] = "unknown" /\ m2[2] \in { "good", "broken" }) => m1[1] # m2[1]

\* C4 witness of the divergence: one device has no after-evaluation,
\* another is evaluated broken, and both are shown with the same marker.
C4_UnknownShownAsBroken ==
    /\ cmpPc = "done"
    /\ \E i, j \in DOMAIN report.sections :
          /\ ~HasEvaluation(afterEvals, Registry[i].name)
          /\ HasEvaluation(afterEvals, Registry[j].name)
          /\ EvaluationOf(afterEvals, Registry[j].name).status = "broken"
          /\ report.sections[i].afterStatus = report.sections[j].afterStatus

\* The devices that have both evaluations, each with an issue list.
ComparedDevices ==
    { i \in DOMAIN Registry :
        /\ HasEvaluation(beforeEvals, Registry[i].name)
        /\ HasEvaluation(afterEvals, Registry[i].name)
        /\ EvaluationOf(beforeEvals, Registry[i].name).issues.present
        /\ EvaluationOf(afterEvals, Registry[i].name).issues.present }

\* The positions of `full` whose element is not in the set `without`.
KeptPositions(full, without) ==
    { k \in DOMAIN full : full[k] \notin without }

\* C5: for a device with both issue lists, fixedIssues holds the members of
\* before.issues that equal no member of after.issues, each as often and in
\* the order in which before.issues holds them; so it shares nothing with
\* after.issues.
C5_FixedIssuesAreBeforeMinusAfter ==
    cmpPc = "done" =>
        \A i \in ComparedDevices :
            LET before == EvaluationOf(beforeEvals, Registry[i].name).issues.items
                after  == EvaluationOf(afterEvals, Registry[i].name).issues.items
                fixed  == report.sections[i].fixedIssues
                kept   == KeptPositions(before, Range(after))
            IN  /\ Range(fixed) \cap Range(after) = {}
                /\ Len(fixed) = Cardinality(kept)
                /\ \A k \in DOMAIN fixed :
                      \E pos \in kept :
                          /\ Cardinality({ q \in kept : q < pos }) = k - 1
                          /\ before[pos] = fixed[k]
                /\ (before = << "fix X", "fix Y" >> /\ after = << "fix Y" >>)
                      => fixed = << "fix X" >>

\* C5 witness: the report was generated for before issues [fix X, fix Y]
\* and after issues [fix Y], and for a before list with a repeated issue of
\* which the after list holds another.
C5_Witness ==
    /\ cmpPc = "done"
    /\ 1 \in ComparedDevices
    /\ LET before == EvaluationOf(beforeEvals, Registry[1].name).issues.items
           after  == EvaluationOf(afterEvals, Registry[1].name).issues.items
       IN  /\ before = << "fix X", "fix Y", "fix X" >>
           /\ after = << "fix Y" >>
           /\ report.sections[1].fixedIssues = << "fix X", "fix X" >>

(***************************************************************************)
(* Claims about the decoding of the agent's answer.                        *)
(***************************************************************************)
\* whether no "{" of the text is followed later by a "}"
NoBracePair(text) ==
    ~\E i, j \in DOMAIN text : i < j /\ text[i] = "{" /\ text[j] = "}"

\* the text from the first "{" to the last "}" of a text with a brace pair
WidestSpan(text) ==
    SubSeq(text, SetMin(Positions(text, "{")), SetMax(Positions(text, "}")))

\* the three ways a text cannot be decoded
MalformedBetweenBraces(text) ==
    ~NoBracePair(text) /\ ~JSONParse(WidestSpan(text)).ok

WithoutEvaluationsField(text) ==
    /\ ~NoBracePair(text)
    /\ JSONParse(WidestSpan(text)).ok
    /\ \A k \in DOMAIN JSONParse(WidestSpan(text)).val.v :
          JSONParse(WidestSpan(text)).val.v[k][1] # Key_evaluations

Undecodable(text) ==
    NoBracePair(text) \/ MalformedBetweenBraces(text) \/ WithoutEvaluationsField(text)

\* C6: the decoding raises nothing to its caller, and for a raw text that
\* cannot be decoded (no "{" followed by "}", malformed JSON between the
\* braces, or an object without evaluations field) it returns the empty
\* list.
C6_UndecodableGivesEmptyList ==
    /\ evalPc # "threw"
    /\ (evalPc = "returned" /\ Undecodable(rawResponse)) => evaluations = NoEvaluations

\* C6 witness: the function returned for a text with malformed JSON between
\* its braces.
C6_Witness ==
    /\ evalPc = "returned"
    /\ MalformedBetweenBraces(rawResponse)
    /\ rawResponse = ProseBefore \o ObjectMalformed

\* C7: when the raw text is the JSON text of a valid object, compact or
\* indented, the evaluations returned are the object's evaluations, element
\* for element and in the same order.
C7_RoundTrip ==
    evalPc = "returned" =>
        \A e \in EncodedObjects :
            rawResponse = e.text => evaluations = Get(e.object, Key_evaluations)

\* C7 witness: the text of an object with two evaluations, one of them with
\* braces, quotes, a backslash and a line break in its strings, was decoded.
C7_Witness ==
    /\ evalPc = "returned"
    /\ \E e \in EncodedObjects :
          /\ rawResponse = e.text
          /\ Len(Get(e.object, Key_evaluations).v) = MaxEvals
          /\ \E k \in 1..MaxEvals :
                Get(Get(e.object, Key_evaluations).v[k], Key_device) = JString(<< "B", "}" >>)
          /\ Len(evaluations.v) = MaxEvals

BraceFree(text) == "{" \notin Range(text) /\ "}" \notin Range(text)

\* the ways a text holds the text of a valid object, with what is before
\* and after it
Embeddings(text) ==
    { [object |-> e.object,
       before |-> SubSeq(text, 1, i - 1),
       after |-> SubSeq(text, j + 1, Len(text))] :
        << i, j, e >> \in
            { x \in Positions(text, "{") \X Positions(text, "}") \X EncodedObjects :
                x[1] < x[2] /\ SubSeq(text, x[1], x[2]) = x[3].text } }

\* what decoding one span alone gives
EvaluationsOfSpan(span) ==
    IF JSONParse(span).ok /\ Truthy(Get(JSONParse(span).val, Key_evaluations))
    THEN Get(JSONParse(span).val, Key_evaluations)
    ELSE NoEvaluations

\* a valid object between brace-free texts is decoded to its evaluations
DecodedInProse ==
    \A m \in Embeddings(rawResponse) :
        (BraceFree(m.before) /\ BraceFree(m.after)) =>
            evaluations = Get(m.object, Key_evaluations)

\* C8 as stated: a valid object between brace-free texts is decoded to its
\* evaluations, and with any "{" before it or "}" after it the result is
\* the empty list.
C8_AnyExtraBraceGivesEmptyList ==
    evalPc = "returned" =>
        /\ DecodedInProse
        /\ \A m \in Embeddings(rawResponse) :
              ("{" \in Range(m.before) \/ "}" \in Range(m.after)) =>
                  evaluations = NoEvaluations

\* C8 amended: what is decoded is exactly the span from the first "{" to
\* the last "}"; a valid object between brace-free texts is decoded to its
\* evaluations; with a "{" before it and no "}" after it, or a "}" after it
\* and no "{" before it, the result is the empty list; with both, the
\* result is whatever the wider span decodes to, which need not be empty.
C8_WidestSpanDecoded ==
    evalPc = "returned" =>
        /\ DecodedInProse
        /\ ~NoBracePair(rawResponse) =>
              evaluations = EvaluationsOfSpan(WidestSpan(rawResponse))
        /\ \A m \in Embeddings(rawResponse) :
              \/ "{" \in Range(m.before) /\ "}" \notin Range(m.after)
              \/ "}" \in Range(m.after) /\ "{" \notin Range(m.before)
              => evaluations = NoEvaluations

\* C8 witness: the object with the one evaluation of device A, status good,
\* was decoded from between two brace-free texts, to that evaluation.
C8_Witness ==
    /\ evalPc = "returned"
    /\ rawResponse = ProseBefore \o ObjectA \o ProseAfter
    /\ evaluations = JArray(<< EvaluationA >>)

\* C8 witness of the wider span: a valid object has a "{" before it and a
\* "}" after it, and the evaluations returned are those of the object
\* around it.
C8_WiderSpanDecoded ==
    /\ evalPc = "returned"
    /\ rawResponse = WrapperOpen \o ObjectA \o << "}" >>
    /\ Len(evaluations.v) = 1
    /\ Get(evaluations.v[1], Key_device) = JString(<< "B" >>)

(***************************************************************************)
(* Claims about failures and resources in the capture loops.               *)
(***************************************************************************)
\* the devices whose turn of the loop is over
CapturedDevices ==
    { i \in DOMAIN DEVICES(capProgram) :
        i < capIndex \/ (i = capIndex /\ capPc = "closePage") }

\* C11: a navigation that times out or fails never ends the capture
\* function: the device's screenshot is still written, its record is still
\* pushed, and the loop reaches every device.
C11_NavigationFailureSwallowed ==
    /\ capPc = "failed" => capNavLog = << >>
    /\ \A i \in CapturedDevices :
          /\ i \in DOMAIN capNavLog
          /\ ScreenshotPath(capDir, DEVICES(capProgram)[i].name) \in capFiles
          /\ i \in DOMAIN capResults
          /\ capResults[i].device = DEVICES(capProgram)[i].name
    /\ capPc = "returned" => Len(capNavLog) = Len(DEVICES(capProgram))

\* C11 witness: the function returned all four records after the first
\* navigation failed with an error and the second timed out.
C11_Witness ==
    /\ capPc = "returned"
    /\ capNavLog[1] = "error"
    /\ capNavLog[2] = "timeout"
    /\ Len(capResults) = 4
    /\ Cardinality(capFiles) = 4

\* C12: when the accessibility probe throws for a device, that device's
\* record is still pushed, without findings or with none, and its page is
\* closed; the function still returns one record per device, with findings
\* present for every device whose probe returned.
C12_ProbeFailureAffectsOneDevice ==
    /\ \A i \in DOMAIN capAuditLog :
          capAuditLog[i] = "threw" =>
              /\ i \in DOMAIN capResults
              /\ capResults[i].device = DEVICES(capProgram)[i].name
              /\ capResults[i].accessibilityIssues = << >>
              /\ capProgram = "viewport-test" => ~capResults[i].hasIssues
              /\ i < capIndex => i \notin capPage
    /\ capPc = "returned" =>
          /\ Len(capResults) = Len(DEVICES(capProgram))
          /\ Len(capAuditLog) = Len(DEVICES(capProgram))
          /\ \A i \in DOMAIN capAuditLog :
                capAuditLog[i] = "ok" => capResults[i].hasIssues

\* C12 witness: the function returned after the probe threw for the first
\* device and returned findings for the second.
C12_Witness ==
    /\ capPc = "returned"
    /\ capAuditLog[1] = "threw"
    /\ capAuditLog[2] = "ok"
    /\ capResults[2].accessibilityIssues # << >>

RECURSIVE AgentText(_)
AgentText(events) ==
    IF events = << >> THEN << >>
    ELSE (IF Head(events).type = "text-delta" THEN Head(events).text ELSE << >>)
         \o AgentText(Tail(events))

\* the raw response as a reader gets it back from a written file: the text
\* between the fences of the raw section, the raw member of the decoded dump
RawOf(file) ==
    IF file.name = "report.md"
    THEN SubSeq(file.text, Len(RawSectionOpen) + 1, Len(file.text) - Len(RawSectionClose))
    ELSE Prop(JSONParse(file.text).val, Key_raw).v

EvaluationOver == evalPc \in { "returned", "written", "rejected" }

\* C15: for every stream, the raw text returned with the evaluations is the
\* concatenated agent text, and the program writes it into its output: the
\* file is written and holds the raw text, also when the evaluations are
\* the empty list.
C15_RawAlwaysWritten ==
    /\ EvaluationOver => rawResponse = AgentText(evalSent)
    /\ evalPc # "rejected"
    /\ evalPc = "written" => (evalOutput # NoFile /\ RawOf(evalOutput) = AgentText(evalSent))

\* C15, the part that holds: the returned raw text is the concatenated agent
\* text; full-workflow.ts always writes the dump, from which the raw text
\* reads back unchanged; viewport-test.ts writes the raw section unchanged
\* whenever the evaluations are a list of objects, the empty list included.
C15_RawRetainedWhenReportGenerated ==
    /\ EvaluationOver => rawResponse = AgentText(evalSent)
    /\ evalPc = "rejected" => (evalProgram = "viewport-test" /\ ReportThrows(evaluations))
    /\ evalPc = "written" => (evalOutput # NoFile /\ RawOf(evalOutput) = AgentText(evalSent))

\* C15 witness of the divergence: the agent answered {"evaluations":"x"},
\* the report generation of viewport-test.ts threw, and no file holds the
\* raw text.
C15_RawLostWithReport ==
    /\ evalPc = "rejected"
    /\ evalProgram = "viewport-test"
    /\ rawResponse = ObjectWithText
    /\ evaluations = JString(<< "x" >>)
    /\ evalOutput = NoFile

\* C15, the case the claim names: an unparsable answer, an empty list, and
\* the raw text in the file all the same.
C15_RawWrittenWithEmptyList ==
    /\ evalPc = "written"
    /\ evaluations = NoEvaluations
    /\ rawResponse = ProseBefore \o ObjectMalformed
    /\ RawOf(evalOutput) = rawResponse

(***************************************************************************)
(* Claims about a run of main.                                             *)
(***************************************************************************)
\* the positions of the log that hold an event of the kind e
EventsOf(e) == { i \in DOMAIN runLog : runLog[i].e = e }

EventsOfPass(e, pass) == { i \in EventsOf(e) : runLog[i].pass = pass }

Reports == { "report.md", "comparison.md" }

\* C13: when the browser cannot be launched, nothing is captured and
\* nothing is asked of the agent in that pass, no report is written, and
\* the process ends with a non-zero exit status.
C13_LaunchFailureExitsNonZero ==
    \A i \in EventsOf("launch-failed") :
        /\ EventsOfPass("captured", runLog[i].pass) = {}
        /\ EventsOfPass("submit-evaluation", runLog[i].pass) = {}
        /\ Range(runFiles) \cap Reports = {}
        /\ runPc = "exited"
        /\ runExit # 0

\* C13, the part that holds: a launch that fails ends the run with nothing
\* captured and nothing asked in that pass, and with no report.
C13_LaunchFailureEndsRun ==
    \A i \in EventsOf("launch-failed") :
        /\ EventsOfPass("captured", runLog[i].pass) = {}
        /\ EventsOfPass("submit-evaluation", runLog[i].pass) = {}
        /\ Range(runFiles) \cap Reports = {}
        /\ runPc = "exited"

\* C13 witness of the divergence: viewport-test.ts could not launch the
\* browser, and the process has ended with exit status 0.
C13_LaunchFailureExitsZero ==
    /\ runProgram = "viewport-test"
    /\ runLog = << Event("launch-failed", "only", "") >>
    /\ runPc = "exited"
    /\ runExit = 0

\* C14: without a credential the run aborts at once: no device is
\* captured, no prompt is submitted, no report is written, and the process
\* ends with a non-zero exit status.
C14_NoCredentialAbortsAtOnce ==
    ~runKey =>
        /\ EventsOf("captured") = {}
        /\ runRequests = << >>
        /\ runFixRequests = << >>
        /\ Range(runFiles) \cap Reports = {}
        /\ runPc = "exited" => runExit # 0

\* C14, the part that holds: without a credential no prompt is submitted
\* and no file is written, the missing credential is met once and not
\* retried, and when it is met the process ends with exit status 1.
C14_NoCredentialNoRequest ==
    ~runKey =>
        /\ runRequests = << >>
        /\ runFixRequests = << >>
        /\ runFiles = << >>
        /\ Cardinality(EventsOf("no-credential")) <= 1
        /\ EventsOf("no-credential") # {} => (runPc = "exited" /\ runExit = 1)

\* C14 witness of the divergence: full-workflow.ts without a credential has
\* captured every device of the before pass and then ended with status 1.
C14_CapturedBeforeCredentialCheck ==
    /\ ~runKey
    /\ runProgram = "full-workflow"
    /\ runCaptured = [k \in DOMAIN DEVICES_workflow |-> DEVICES_workflow[k].name]
    /\ Cardinality(EventsOf("captured")) = Len(DEVICES_workflow)
    /\ runPc = "exited"
    /\ runExit = 1

\* the suggestions of all the evaluations, as a set of pairs of positions
SuggestionAt(evals, k, j) == evals[k].suggestions.items[j]

SuggestionPlaces(evals) ==
    { << k, j >> \in (DOMAIN evals) \X (1..3) :
        evals[k].suggestions.present /\ j \in DOMAIN evals[k].suggestions.items }

\* the place << k, j >> is the first one that holds its suggestion
FirstPlace(evals, place) ==
    \A other \in SuggestionPlaces(evals) :
        SuggestionAt(evals, other[1], other[2]) = SuggestionAt(evals, place[1], place[2])
            => (place[1] < other[1] \/ (place[1] = other[1] /\ place[2] <= other[2]))

\* place a comes before place b
PlaceBefore(a, b) == a[1] < b[1] \/ (a[1] = b[1] /\ a[2] < b[2])

\* the number of issues of the evaluations before the k-th
RECURSIVE IssuesBefore(_, _)
IssuesBefore(evals, k) ==
    IF k <= 1 THEN 0
    ELSE IssuesBefore(evals, k - 1)
         + (IF evals[k - 1].issues.present THEN Len(evals[k - 1].issues.items) ELSE 0)

\* C16: the priority list of the fix request holds every distinct
\* suggestion of the before evaluations once, in the order of their first
\* occurrences; the issues are those of all the evaluations one after the
\* other, repetitions kept; there is at most one fix request, it is there
\* once applyFixes has submitted, and its agent works in the target
\* repository.
C16_PriorityListIsDistinctSuggestions ==
    /\ Len(runFixRequests) <= 1
    /\ runPc \in { "fixStream", "wait" } => Len(runFixRequests) = 1
    /\ \A r \in DOMAIN runFixRequests :
          LET request == runFixRequests[r]
              fixes == request.prompt.priorityFixes
              issues == request.prompt.allIssues
              evals == runEvals["before"]
              places == SuggestionPlaces(evals)
          IN  /\ request.localDirectory = TargetRepo
              /\ \A a, b \in DOMAIN fixes : a # b => fixes[a] # fixes[b]
              /\ Range(fixes) = { SuggestionAt(evals, p[1], p[2]) : p \in places }
              /\ \A p, q \in places :
                    (FirstPlace(evals, p) /\ FirstPlace(evals, q) /\ PlaceBefore(p, q)) =>
                        \E a, b \in DOMAIN fixes :
                            /\ a < b
                            /\ fixes[a] = SuggestionAt(evals, p[1], p[2])
                            /\ fixes[b] = SuggestionAt(evals, q[1], q[2])
              /\ Len(issues) = IssuesBefore(evals, Len(evals) + 1)
              /\ \A k \in DOMAIN evals :
                    evals[k].issues.present =>
                        \A j \in DOMAIN evals[k].issues.items :
                            issues[IssuesBefore(evals, k) + j] = evals[k].issues.items[j]

\* C16 witness: the fix request for two evaluations that repeat suggestions
\* within and across them, and repeat an issue.
C16_Witness ==
    /\ Len(runFixRequests) = 1
    /\ Len(runEvals["before"]) = 2
    /\ runEvals["before"][1].device = "iPhone 15 Pro"
    /\ runEvals["before"][2].device = "Android (Pixel 7)"
    /\ runFixRequests[1].prompt.priorityFixes = << "use grid", "add max-width" >>
    /\ runFixRequests[1].prompt.allIssues = << "fix X", "fix X", "fix X", "fix Y" >>

\* C17: nothing of the after pass happens before the fix stream has ended:
\* every event of the after pass follows the end of the fix stream; the fix
\* request is submitted at most once, also when its stream is interrupted,
\* and an interrupted fix stream ends the run.
C17_AfterPassFollowsFixStream ==
    /\ Cardinality(EventsOf("submit-fix")) <= 1
    /\ Cardinality(EventsOf("submit-fix")) = Len(runFixRequests)
    /\ \A i \in DOMAIN runLog :
          runLog[i].pass = "after" =>
              \E j \in EventsOf("fix-stream-end") :
                  /\ j < i
                  /\ \E k \in EventsOf("submit-fix") : k < j
    /\ runPass = "after" => EventsOf("fix-stream-end") # {}
    /\ EventsOf("fix-stream-interrupted") # {} =>
          (runPc = "exited" /\ EventsOfPass("launch", "after") = {})

\* C17 witness: a device of the after pass is captured after a fix stream
\* of two events has ended.
C17_Witness ==
    /\ runPass = "after"
    /\ Cardinality(EventsOf("fix-delta")) = 2
    /\ EventsOfPass("captured", "after") # {}

\* C20: a pass submits at most one evaluation request, after the last
\* device of the pass is captured, and the request covers every device of
\* the registry in order; it is submitted once the pass reaches the stream,
\* and an answer that cannot be decoded is taken as no evaluations, with no
\* second request.
C20_OneEvaluationRequestPerPass ==
    /\ \A k \in DOMAIN Passes(runProgram) :
          LET pass == Passes(runProgram)[k]
              submits == EventsOfPass("submit-evaluation", pass)
          IN  /\ Cardinality(submits) <= 1
              /\ \A i \in submits :
                    /\ Cardinality({ c \in EventsOfPass("captured", pass) : c < i })
                          = Len(RunDevices)
                    /\ \A c \in EventsOfPass("captured", pass) : c < i
              /\ \A i \in EventsOfPass("evaluation-malformed", pass) :
                    /\ Cardinality(submits) = 1
                    /\ runEvals[pass] = << >>
    /\ Len(runRequests) = Cardinality(EventsOf("submit-evaluation"))
    /\ \A r \in DOMAIN runRequests :
          runRequests[r].devices = [d \in DOMAIN RunDevices |-> RunDevices[d].name]
    /\ runPc \in { "evaluationStream", "save" } =>
          EventsOfPass("submit-evaluation", runPass) # {}

\* C20 witness: both passes of full-workflow.ts got an answer that could
\* not be decoded, and two requests were submitted in all.
C20_Witness ==
    /\ runProgram = "full-workflow"
    /\ Cardinality(EventsOf("evaluation-malformed")) = 2
    /\ Len(runRequests) = 2
    /\ runPc = "exited"

(***************************************************************************)
(* Claims about the drain of the agent's stream.                           *)
(***************************************************************************)
\* the events of a stream that are text deltas, in order
RECURSIVE TextDeltasOf(_)
TextDeltasOf(events) ==
    IF events = << >> THEN << >>
    ELSE IF Head(events).type = "text-delta"
         THEN << Head(events) >> \o TextDeltasOf(Tail(events))
         ELSE TextDeltasOf(Tail(events))

\* the events received so far
Received == SubSeq(evalSent, 1, Len(evalSent) - Len(stream))

\* C21: at every moment the raw response is the texts of the text deltas
\* received so far, joined in arrival order; events with another tag add
\* nothing; and the drain ends only when the stream is empty, whatever the
\* tags of its events.
C21_RawIsTextDeltasInOrder ==
    /\ rawResponse = Flatten([k \in DOMAIN TextDeltasOf(Received) |->
                                TextDeltasOf(Received)[k].text])
    /\ evalPc # "stream" => stream = << >>
    /\ evalPc \notin { "threw" }

\* C21 witness: a stream of a text delta, an event with the tag
\* thinking-delta that carries a text, and a second text delta was drained
\* to its end.
C21_Witness ==
    /\ evalPc = "returned"
    /\ evalSent = << TextDelta(ProseBefore), Delta("thinking-delta", << "h", "m" >>),
                     TextDelta(ObjectA) >>
    /\ rawResponse = ProseBefore \o ObjectA

(***************************************************************************)
(* Labels of form controls (viewport-test.ts 245-257, full-workflow.ts     *)
(* 144-148) and the samples carried by a finding (viewport-test.ts         *)
(* 271-320).                                                               *)
(***************************************************************************)
\* The positions of the form controls of a page that have neither a label
\* element whose "for" equals their non-empty id, nor an aria-label, nor an
\* aria-labelledby attribute.
Unlabelled(dom) ==
    { i \in DOMAIN dom :
        /\ dom[i].tag \in {"input", "select", "textarea"}
        /\ ~\E j \in DOMAIN dom :
              dom[j].tag = "label" /\ dom[i].id # "" /\ dom[j].for = dom[i].id
        /\ dom[i].ariaLabel = ""
        /\ dom[i].ariaLabelledBy = "" }

\* The positions of the form controls whose only label is aria-labelledby.
OnlyAriaLabelledBy(dom) ==
    { i \in DOMAIN dom :
        /\ dom[i].tag \in {"input", "select", "textarea"}
        /\ ~\E j \in DOMAIN dom :
              dom[j].tag = "label" /\ dom[i].id # "" /\ dom[j].for = dom[i].id
        /\ dom[i].ariaLabel = ""
        /\ dom[i].ariaLabelledBy # "" }

LabelFindings == { k \in DOMAIN probeIssues : probeIssues[k].type \in {"missing-label", "missing-labels"} }

\* C24: in every capture path the missing-label finding counts exactly the
\* form controls that have none of the three labels: there is no such
\* finding when every control has one, and otherwise its count is the number
\* of controls without any.
C24_MissingLabelCountsUnlabelled ==
    probePc = "done" =>
        /\ Unlabelled(probeDom) = {} => LabelFindings = {}
        /\ Unlabelled(probeDom) # {} =>
              /\ LabelFindings # {}
              /\ \A k \in LabelFindings :
                    probeIssues[k].count = Cardinality(Unlabelled(probeDom))

\* C24, the part that holds: the check of viewport-test.ts counts exactly
\* the controls without any of the three labels.
C24_ViewportCountsUnlabelled ==
    (probePc = "done" /\ probeProgram = "viewport-test") =>
        /\ Unlabelled(probeDom) = {} => LabelFindings = {}
        /\ Unlabelled(probeDom) # {} =>
              /\ LabelFindings # {}
              /\ \A k \in LabelFindings :
                    probeIssues[k].count = Cardinality(Unlabelled(probeDom))

\* C24 divergence: the check of full-workflow.ts has counted a control whose
\* only label is aria-labelledby, on a page where every other control is labelled.
C24_WorkflowCountsAriaLabelledBy ==
    /\ probePc = "done"
    /\ probeProgram = "full-workflow"
    /\ Unlabelled(probeDom) = {}
    /\ Cardinality(OnlyAriaLabelledBy(probeDom)) = 1
    /\ \E k \in LabelFindings : probeIssues[k].count = 1

\* The k-th smallest member of a set of positions.
Nth(S, k) == CHOOSE i \in S : Cardinality({ j \in S : j <= i }) = k

\* The samples a finding of the given kind may carry: the first MaxSamples
\* offending elements of the page in document order.
AltOffenders(dom) ==
    { i \in DOMAIN dom : dom[i].tag = "img" /\ dom[i].alt = "" /\ dom[i].ariaLabel = "" }

FirstOffenders(S) == [ k \in 1..Min(Cardinality(S), MaxSamples) |-> Nth(S, k) ]

ExpectedSamples(type, dom) ==
    CASE type = "missing-alt-text" ->
             [ k \in DOMAIN FirstOffenders(AltOffenders(dom)) |->
                 AltSample(dom[FirstOffenders(AltOffenders(dom))[k]]) ]
      [] type = "small-touch-target" ->
             [ k \in DOMAIN FirstOffenders(SmallInteractive(dom)) |->
                 TouchSample(dom[FirstOffenders(SmallInteractive(dom))[k]]) ]
      [] type = "missing-label" ->
             [ k \in DOMAIN FirstOffenders(Unlabelled(dom)) |->
                 LabelSample(dom[FirstOffenders(Unlabelled(dom))[k]]) ]
      [] OTHER -> << >>

\* C25: a finding carries sample elements only when its kind is
\* missing-alt-text, small-touch-target or missing-label; it then carries at
\* most three, the first three offending elements in document order.  A
\* landmark or heading finding carries none.
C25_SamplesOnlyOnCountedKinds ==
    probePc = "done" =>
        \A k \in DOMAIN probeIssues :
            LET issue == probeIssues[k] IN
            /\ issue.hasElement =>
                  /\ issue.type \in {"missing-alt-text", "small-touch-target", "missing-label"}
                  /\ Len(issue.element) <= 3
                  /\ issue.element = ExpectedSamples(issue.type, probeDom)
            /\ ~issue.hasElement => issue.element = << >>
            /\ issue.type \in {"missing-landmarks", "missing-headings"} => ~issue.hasElement

\* C25 witness: viewport-test.ts has probed, for a mobile device, a page with
\* five small interactive elements and no landmark: the touch finding carries
\* three samples, the landmark finding none.
C25_Witness ==
    /\ probePc = "done"
    /\ probeProgram = "viewport-test"
    /\ Cardinality(SmallInteractive(probeDom)) = 5
    /\ \E k \in DOMAIN probeIssues :
          /\ probeIssues[k].type = "small-touch-target"
          /\ probeIssues[k].count = 5
          /\ Len(probeIssues[k].element) = 3
    /\ \E k \in DOMAIN probeIssues :
          probeIssues[k].type = "missing-landmarks" /\ ~probeIssues[k].hasElement

(***************************************************************************)
(* Claims about the matching of evaluations to devices and about the       *)
(* issue lists of a device's section (viewport-test.ts 510-565,            *)
(* full-workflow.ts 369-414).                                              *)
(***************************************************************************)
\* The marker the comparison shows for the first evaluation of a name.
MarkerFor(evals, name) ==
    IF ~HasEvaluation(evals, name) THEN "CROSS"
    ELSE IF EvaluationOf(evals, name).status = "good" THEN "CHECK"
    ELSE IF EvaluationOf(evals, name).status = "minor_issues" THEN "WARNING" ELSE "CROSS"

ListedRemaining(section) ==
    IF section.remainingShown THEN section.remainingIssues ELSE << >>

\* The fixed issues a section lists.
ListedFixed(section) ==
    IF section.fixedShown THEN section.fixedIssues ELSE << >>

\* C26: for every registry device that has an after-evaluation, the
\* remaining issues its section lists are the issues of that evaluation:
\* the same strings in the same order, duplicates kept.
C26_RemainingIsAfterIssues ==
    cmpPc = "done" =>
        \A i \in DOMAIN Registry :
            HasEvaluation(afterEvals, Registry[i].name) =>
                ListedRemaining(report.sections[i]) =
                    EvaluationOf(afterEvals, Registry[i].name).issues.items

\* C26, the part that holds: the same, for a device that also has a
\* before-evaluation, whatever that evaluation holds.
C26_RemainingIsAfterIssuesWhenBoth ==
    cmpPc = "done" =>
        \A i \in DOMAIN Registry :
            (/\ HasEvaluation(afterEvals, Registry[i].name)
             /\ HasEvaluation(beforeEvals, Registry[i].name)) =>
                ListedRemaining(report.sections[i]) =
                    EvaluationOf(afterEvals, Registry[i].name).issues.items

\* C26 divergence: the first device has an after-evaluation with issues and
\* no before-evaluation, and its section lists no remaining issue.
C26_RemainingDroppedWithoutBefore ==
    /\ cmpPc = "done"
    /\ ~HasEvaluation(beforeEvals, Registry[1].name)
    /\ HasEvaluation(afterEvals, Registry[1].name)
    /\ EvaluationOf(afterEvals, Registry[1].name).issues.items = << "fix X", "fix Y" >>
    /\ ListedRemaining(report.sections[1]) = << >>

\* C28: a section lists fixed or remaining issues only when its device has
\* both a before- and an after-evaluation; and when the after-evaluation
\* has no issues field, the fixed issues are all the before issues.
C28_IssuesOnlyWithBothEvaluations ==
    cmpPc = "done" =>
        \A i \in DOMAIN Registry :
            LET name == Registry[i].name
                section == report.sections[i]
                both == HasEvaluation(beforeEvals, name) /\ HasEvaluation(afterEvals, name)
            IN  /\ ~both => ListedFixed(section) = << >> /\ ListedRemaining(section) = << >>
                /\ (both /\ ~EvaluationOf(afterEvals, name).issues.present) =>
                      /\ ListedFixed(section) = EvaluationOf(beforeEvals, name).issues.items
                      /\ ListedRemaining(section) = << >>

\* C28 witness: the first device's before-evaluation has three issues, one
\* of them twice, its after-evaluation has no issues field, and all three
\* are listed as fixed; the second device has neither evaluation.
C28_Witness ==
    /\ cmpPc = "done"
    /\ HasEvaluation(beforeEvals, Registry[1].name)
    /\ HasEvaluation(afterEvals, Registry[1].name)
    /\ EvaluationOf(beforeEvals, Registry[1].name).issues.items = << "fix X", "fix Y", "fix X" >>
    /\ ~EvaluationOf(afterEvals, Registry[1].name).issues.present
    /\ ListedFixed(report.sections[1]) = << "fix X", "fix Y", "fix X" >>
    /\ ~HasEvaluation(beforeEvals, Registry[2].name)

(***************************************************************************)
(* Claim about the container the decoding hands on (viewport-test.ts       *)
(* 427-438 and 470-475, full-workflow.ts 253-264).                         *)
(***************************************************************************)
\* C27: for every raw agent text the value handed on as the evaluations is
\* a list, possibly empty; a decoded evaluations field that is not a list
\* is not handed on, and the report generation does not fail on it.
C27_ParserHandsOnAList ==
    /\ EvaluationOver => evaluations.t = "arr"
    /\ ~(evalPc = "rejected" /\ evaluations.t # "arr")

\* C27, the part that holds: what is handed on is a list unless the decoded
\* object has a truthy evaluations field that is no list, which is handed on
\* as it is; an absent, null, false or empty-string field, and a text that
\* does not decode, give the empty list.
C27_ListUnlessTruthyField ==
    (EvaluationOver /\ evaluations.t # "arr") =>
        /\ Truthy(evaluations)
        /\ JsonMatch(rawResponse).found
        /\ JSONParse(JsonMatch(rawResponse).text).ok
        /\ Get(JSONParse(JsonMatch(rawResponse).text).val, Key_evaluations) = evaluations

\* C27 divergence: the agent wrote prose and then {"evaluations":"x"}; the
\* string was handed on as the evaluations and the report generation of
\* viewport-test.ts threw on it.
C27_TextHandedOnAsList ==
    /\ evalPc = "rejected"
    /\ evalProgram = "viewport-test"
    /\ rawResponse = ProseBefore \o ObjectWithText
    /\ evaluations.t = "str"
    /\ ReportThrows(evaluations)

(***************************************************************************)
(* Claim about the order of the steps of full-workflow.ts (main 520-589,   *)
(* applyFixes 286-315).                                                    *)
(***************************************************************************)
\* The step of main an event of the log belongs to: 1 before-capture,
\* 2 before-evaluation, 3 fix dispatch, 4 after-capture, 5 after-evaluation.
StepOf(event) ==
    IF event.e \in { "submit-fix", "fix-delta", "fix-stream-end", "fix-stream-interrupted" }
    THEN 3
    ELSE IF event.e \in { "launch", "launch-failed", "captured" }
    THEN (IF event.pass = "before" THEN 1 ELSE 4)
    ELSE (IF event.pass = "before" THEN 2 ELSE 5)

\* The events with which a step raises or aborts the run.
Failures ==
    { "launch-failed", "no-credential", "evaluation-stream-interrupted",
      "fix-stream-interrupted" }

\* Whether a step has finished before position i of the log.
FinishedBefore(stepNo, i) ==
    CASE stepNo \in { 1, 4 } ->
             Cardinality({ c \in EventsOfPass("captured", IF stepNo = 1 THEN "before" ELSE "after") :
                             c < i }) = Len(DEVICES_workflow)
      [] stepNo \in { 2, 5 } ->
             /\ \E j \in 1..(i - 1) :
                   /\ runLog[j].e \in { "evaluation-decoded", "evaluation-malformed" }
                   /\ runLog[j].pass = (IF stepNo = 2 THEN "before" ELSE "after")
             /\ \E f \in DOMAIN runFiles :
                   runFiles[f] = (IF stepNo = 2 THEN "before" ELSE "after") \o "-evaluation.json"
      [] stepNo = 3 -> \E j \in EventsOf("fix-stream-end") : j < i

\* C29: the full workflow runs before-capture, before-evaluation, fix
\* dispatch, after-capture, after-evaluation and the comparison in this
\* order, each step beginning after the one before it has finished; once
\* the before evaluation is saved the fix request is dispatched, also for an
\* empty before list; and a run that ends without a step raising has
\* written the comparison report, last of its files.
C29_StepsInFixedOrder ==
    runProgram = "full-workflow" =>
        /\ \A i, j \in DOMAIN runLog : i < j => StepOf(runLog[i]) <= StepOf(runLog[j])
        /\ \A i \in DOMAIN runLog :
              StepOf(runLog[i]) > 1 => FinishedBefore(StepOf(runLog[i]) - 1, i)
        /\ (\E f \in DOMAIN runFiles : runFiles[f] = "comparison.md") =>
              /\ runFiles = << "before-evaluation.json", "after-evaluation.json", "comparison.md" >>
              /\ FinishedBefore(5, Len(runLog) + 1)
        /\ (runFiles # << >> /\ runPc # "applyFixes") =>
              /\ Len(runFixRequests) = 1
              /\ runEvals["before"] = << >> =>
                    /\ runFixRequests[1].prompt.priorityFixes = << >>
                    /\ runFixRequests[1].prompt.allIssues = << >>
        /\ (runPc = "exited" /\ \A i \in DOMAIN runLog : runLog[i].e \notin Failures) =>
              runFiles[Len(runFiles)] = "comparison.md"

\* C29 witness: the before answer could not be decoded, the fix request was
\* dispatched with empty lists, the after pass ran and the run ended with
\* the comparison report written.
C29_Witness ==
    /\ runProgram = "full-workflow"
    /\ runPc = "exited"
    /\ EventsOfPass("evaluation-malformed", "before") # {}
    /\ runEvals["before"] = << >>
    /\ Len(runFixRequests) = 1
    /\ EventsOfPass("evaluation-decoded", "after") # {}
    /\ runFiles = << "before-evaluation.json", "after-evaluation.json", "comparison.md" >>

(***************************************************************************)
(* Claim about the image files of a capture (viewport-test.ts 155-159,     *)
(* full-workflow.ts 102-120).                                              *)
(***************************************************************************)
\* The characters an image file name is written with, before its extension.
LowerCaseChars == Range(LowerCase)

UpperCaseChars == Range(UpperCase)

DigitChars == Range(Digits)

SafeChars == LowerCaseChars \cup DigitChars \cup { "-" }

\* The directories the captures of full-workflow.ts write to.
PassDirectories == { "before", "after" }

\* C30: the image files of one capture are named after the registry's
\* devices: as many characters as the device name, each a lower-case letter,
\* a digit or "-", a letter or digit of the name kept (a letter lower-cased)
\* and any other character replaced by "-", and then ".png".  The names and
\* the paths of different devices differ, every screenshot taken is a file
\* of its own in the directory of the capture, and in the full workflow the
\* file of a device is not the file the other pass writes for it.
C30_ImageFilesDistinct ==
    /\ \A i \in DOMAIN capResults :
          LET name == NameChars(capResults[i].device)
              file == capResults[i].filename
          IN  /\ Len(file) = Len(name) + 1
              /\ file[Len(file)] = ".png"
              /\ \A k \in DOMAIN name :
                    /\ file[k] \in SafeChars
                    /\ name[k] \in LowerCaseChars \cup DigitChars => file[k] = name[k]
                    /\ name[k] \in UpperCaseChars =>
                          \E u \in DOMAIN UpperCase :
                              UpperCase[u] = name[k] /\ file[k] = LowerCase[u]
                    /\ name[k] \notin LowerCaseChars \cup UpperCaseChars \cup DigitChars =>
                          file[k] = "-"
              /\ capResults[i].path = << capDir, file >>
              /\ capResults[i].path \in capFiles
    /\ \A i, j \in DOMAIN capResults :
          i # j => /\ capResults[i].filename # capResults[j].filename
                   /\ capResults[i].path # capResults[j].path
    /\ Cardinality(capFiles) \in { Len(capResults), Len(capResults) + 1 }
    /\ \A p \in capFiles : \A other \in PassDirectories \ { capDir } : p[1] # other
    /\ capPc = "returned" => Cardinality(capFiles) = Len(DEVICES(capProgram))

\* C30 witness: the after capture of the full workflow has returned with
\* four image files, that of the second device named android--pixel-7-.
C30_Witness ==
    /\ capPc = "returned"
    /\ capProgram = "full-workflow"
    /\ capDir = "after"
    /\ Cardinality(capFiles) = 4
    /\ capResults[2].filename =
          << "a", "n", "d", "r", "o", "i", "d", "-", "-", "p", "i", "x", "e", "l", "-", "7", "-",
             ".png" >>

(***************************************************************************)
(* Claim about the accessibility block of the evaluation prompt            *)
(* (viewport-test.ts 359-390, full-workflow.ts 211-222).                   *)
(***************************************************************************)
\* The positions of the returned results that carry at least one finding.
ResultsWithFindings ==
    { i \in DOMAIN capResults :
        capResults[i].hasIssues /\ capResults[i].accessibilityIssues # << >> }

PromptBuilt == capPrompt # NoPrompt

\* C22: the prompt has the block of accessibility findings, heading
\* included, exactly when some capture has a finding: with no finding
\* anywhere there is neither heading nor placeholder, and otherwise the
\* findings are listed in groups, one per device that has findings.
C22_BlockOnlyWhenFindings ==
    PromptBuilt =>
        /\ capPrompt.accessibility.heading <=> ResultsWithFindings # {}
        /\ ~capPrompt.accessibility.placeholder
        /\ Len(capPrompt.accessibility.groups) = Cardinality(ResultsWithFindings)

\* C22, the part that holds: the groups are those of the devices with
\* findings, in capture order, each with the findings of its device; a
\* device without findings has no group; and viewport-test.ts without the
\* accessibility option writes no block at all.
C22_GroupsAreDevicesWithFindings ==
    PromptBuilt =>
        LET groups == capPrompt.accessibility.groups IN
        /\ Len(groups) = Cardinality(ResultsWithFindings)
        /\ \A g \in DOMAIN groups :
              \E i \in ResultsWithFindings :
                  /\ Cardinality({ j \in ResultsWithFindings : j <= i }) = g
                  /\ groups[g].device = capResults[i].device
                  /\ groups[g].findings = capResults[i].accessibilityIssues
        /\ (capProgram = "viewport-test" /\ ~capAccessibility) =>
              ~capPrompt.accessibility.heading /\ groups = << >>
        /\ capPrompt.accessibility.placeholder => groups = << >>

\* C22 divergence: viewport-test.ts ran with the accessibility option, the
\* probe failed for every device, so no capture has a finding, and the
\* prompt still has the heading of the block.
C22_HeadingWithoutFindings ==
    /\ PromptBuilt
    /\ capProgram = "viewport-test"
    /\ capAccessibility
    /\ ResultsWithFindings = {}
    /\ capPrompt.accessibility.heading
    /\ capPrompt.accessibility.groups = << >>

\* C22, the same in full-workflow.ts, which writes the heading and "None
\* detected" under it.
C22_PlaceholderWithoutFindings ==
    /\ PromptBuilt
    /\ capProgram = "full-workflow"
    /\ ResultsWithFindings = {}
    /\ capPrompt.accessibility.heading
    /\ capPrompt.accessibility.placeholder

=============================================================================
